---- MODULE Spec2Model ----
(***************************************************************************)
(* State-machine model of the Scene3D controller (src/src/components/      *)
(* Scene3D.jsx, the class that starts at line 198) and of its host         *)
(* component Portfolio3D.                                                  *)
(*                                                                         *)
(* Numbers.  World coordinates are fixed point, 1 = 0.001 world unit.      *)
(* Angles and sine values are fixed point, 1 = 0.0001.  Math.random()      *)
(* values are thousandths, 0..999.  The seeded generator of                *)
(* createTerrainCell works in units of 0.00001.                            *)
(*                                                                         *)
(* Randomness.  Math.random() is a stream: every handler invocation draws  *)
(* a tape of TapeLen values, and the k-th call of the handler returns      *)
(* tape[k mod TapeLen].  Operators that call Math.random() take the tape   *)
(* and the stream position k and return the next position.                 *)
(***************************************************************************)
EXTENDS Integers, Sequences, FiniteSets, TLC

----------------------------------------------------------------------------
(* Bounds of the model *)

\* generateTerrainGrid's gridExtent (8 in the program, line 416)
GridExtent == 3
\* iterations of each left/right loop of createExpandedTerrain (20 in the program)
ExpandedCount == 2
\* iterations of the riverbank loop of createExpandedTerrain (16 in the program)
BankCount == 2
\* foam particles (800 in the program, line 1198)
FoamCount == 2
\* cap on the instances of one grass patch (the program's counts start at 78)
MaxGrassCount == 17
\* length of the Math.random() tape drawn per handler
TapeLen == 2
\* frames, createTerrainCell calls and clicks the model follows
MaxFrames == 2
MaxCalls == 2
MaxClicks == 2
\* flight timelines alive at once, repeats counted per timeline
MaxTimelines == 2
MaxRepeats == 1
\* flags a pick ray is drawn through
MaxHitFlags == 2
\* objects a pick ray passes through
MaxRay == 3
\* cleanups of the hosting component the model follows
MaxTeardowns == 2
\* tweens of the first flight timeline the follow camera is checked over
MaxHops == 2
CurveStep == 4000
CurveSpan == 100

\* the values Math.random() takes, in thousandths
Rand == {0, 999}
Tapes == [1..TapeLen -> Rand]
NoTape == [i \in 1..TapeLen |-> 0]

----------------------------------------------------------------------------
(* Program constants *)

gridSize == 10
riverWidth == 3000
riverLength == 200000
waterSegments == 64
bankSegments == 40

Null == [null |-> TRUE]

----------------------------------------------------------------------------
(* Arithmetic: Math.abs, Math.min, Math.max, rounding division, Math.sin *)

Abs(v) == IF v < 0 THEN -v ELSE v
Min(a, b) == IF a < b THEN a ELSE b
Max(a, b) == IF a > b THEN a ELSE b
\* sequencing of two statements: F applied to the value v of the first
Bind(v, F(_)) == CHOOSE r \in {F(x) : x \in {v}} : TRUE
Round(n, d) == (2 * n + d) \div (2 * d)

Unit == 100 * 100
Pi == 31416

\* sine on [0, pi/2] by its Taylor polynomial, fixed point; exactly 1 at the
\* quarter turn
SinQ(x) ==
    LET x2 == (x * x) \div Unit
        p4 == Unit - (x2 \div 72)
        p3 == Unit - (((x2 * p4) \div Unit) \div 42)
        p2 == Unit - (((x2 * p3) \div Unit) \div 20)
        p1 == Unit - (((x2 * p2) \div Unit) \div 6)
    IN  IF x = Pi \div 2 THEN Unit ELSE (x * p1) \div Unit

SinPos(a) ==
    LET r == a % (2 * Pi)
        h == IF r >= Pi THEN r - Pi ELSE r
        q == IF h > Pi \div 2 THEN Pi - h ELSE h
    IN  IF r >= Pi THEN -SinQ(q) ELSE SinQ(q)

\* Math.sin(a), a in 0.0001 rad, result in 0.0001
Sin(a) == IF a < 0 THEN -SinPos(-a) ELSE SinPos(a)

\* Math.random(): the k-th value of the handler's tape, in thousandths
Rnd(tape, k) == tape[(k % Len(tape)) + 1]

----------------------------------------------------------------------------
(* CurveModel *)

\* a curve whose slowest term has amplitude 5.0
getRiverCurveOffsetWide(z) ==
    Round(Sin(Round(z, 5)) * 5000 + Sin(Round(z, 2)) * 2000 + Sin(z) * 800, Unit)

\* getRiverCurveOffset(z): sin(z*0.02)*4.0 + sin(z*0.05)*2.0 + sin(z*0.1)*0.8
getRiverCurveOffset(z) ==
    Round(Sin(Round(z, 5)) * 4000 + Sin(Round(z, 2)) * 2000 + Sin(z) * 800, Unit)

----------------------------------------------------------------------------
(* The seeded generator of createTerrainCell *)

\* floor(Math.sin(s) * 10^9) for the integer seeds s the model's cells use:
\* row a holds s = 100000*a - 50 .. 100000*a + 80, a = 2..5
MathSinRows ==
    <<
       <<192755584, 929836998, 812030564, -52353026, -868603486, -886263907, -89097380,
         789984867, 942758670, 228764499, -695554698, -980384114, -363852897, 587202995,
         998387161, 491658775, -467098422, -996407484, -609624101, 337644868, 974484703,
         715387795, -201433353, -933057605, -806832999, 61190145, 872955352, 882129433,
         80277781, -795380893, -939770043, -220138950, 701886878, 978601146, 355594034,
         -594344594, -997845544, -483931902, 474906498, 997118053, 602583869, -345963146,
         -976433241, -709175117, 210095338, 936205108, 801572219, -70022472, -877238826,
         -877925849, -71451896, 800714600, 936707785, 211496152, -708164069, -976741510,
         -347307312, 601439626, 997225746, 476167113, -482677368, -997750503, -595496428,
         354254317, 978305276, 702906876, -218740865, -939279263, -796248639, 78849311,
         881453568, 873653479, 62620410, -805985576, -933572141, -202836785, 714385775,
         974805347, 338993379, -608487539, -996527821, -468365020, 490410420, 998304781,
         588362329, -362517734, -980100666, -696583565, 227369252, 942279827, 790862674,
         -87669975, -885599253, -869312663, -53784020, 811193403, 930363352, 194161525,
         -720551513, -972792813, -330652888, 615487777, 995751818, 460526229, -498105051,
         -998780845, -581182136, 370752748, 981819265, 690205677, -235979827, -945206568,
         -785414749, 96483767, 889675553, 864903737, 44943414, -816337677, -927081673,
         -185471055, 726660795, 970704061, 322286489, -622439795, -994897803, -452651359,
         505760656, 999178656, 573956407, -378958716, -983460944>>,
       <<-157553983, -916088109, -832375053, 16619788, 850334472, 902255563, 124647050,
         -767561386, -954077425, -263419079, 669425552, 986803418, 396918771, -557891164,
         -999778536, -522474134, 435190577, 992743078, 637572171, -303779651, -965837862,
         -739909198, 166288570, 919601393, 827436936, -25469225, -854959098, -898403520,
         -115859889, 773204789, 951388550, 254870065, -675974783, -985331533, -388779016,
         565215134, 999553097, 514906551, -443142703, -993768601, -630728230, 312200766,
         968093817, 733925877, -175010131, -923042631, -822433994, 34316664, 859516739,
         894481088, 107063649, -778787615, -948625138, -246301084, 682471050, 983782448,
         380608800, -572494824, -999249347, -507298629, 451060109, 994716262, 623834871,
         -320597424, -970273927, -727885056, 183717978, 926411550, 817366615, -43161417,
         -864007041, -890488577, -98259022, 784309424, 945787402, 237712804, -688913850,
         -982156288, -372408765, 579729659, 998867308, 499650960, -458942177, -995585993,
         -616892639, 328968962, 972378016, 721787206, -192411433, -929707888, -812235199,
         52002786, 868429649, 886426297, 89446696, -789769786, -942875569, -229105903,
         695302674, 980453178, 364179551, -586919075, -998407011, -491964146, 466788286,
         996377720, 609902073, -337314728, -974405924, -715632808, 201089811, 932931384,
         807040145, -60840083, -872784219, -882294570, -80627363, 795168270, 939889862,
         220481049, -701637024, -978673253, -355921807, 594062506, 997868491, 484238786,
         -474597826, -997091386, -602863725, 345634064, 976357488>>,
       <<122150966, 901168105, 851655443, 19134695, -830978405, -917093791, -160037376,
         744156664, 964176499, 297736907, -642440625, -991961209, -429477233, 527866130,
         999891807, 552621567, -402726394, -987809566, -664705179, 269526083, 955956307,
         763484711, -130931208, -904969579, -846983092, -10284257, 835869876, 913529100,
         151293882, -750040234, -961790818, -289275360, 649198529, 990802284, 421466988,
         -535363114, -999982838, -545222953, 410812400, 989148727, 658066275, -278039276,
         -958516799, -757738398, 139701191, 908700149, 842244380, 1433012, -840695861,
         -909892837, -142538536, 755865038, 959329781, 280791147, -655905573, -989565735,
         -413423724, 542818152, 999995521, 537781620, -418866223, -990410393, -651375815,
         286530682, 961002192, 751932717, -148460230, -912359527, -837439683, 7418343,
         845455978, 906185286, 133772020, -761630624, -956793586, -272284937, 662561226,
         988251653, 405348067, -550230663, -999929860, -530298155, 426887227, 991594461,
         644634320, -294999642, -963412294, -746068127, 157207636, 915947422, 832569373,
         -16269119, -850149858, -902406739, -124995026, 767336537, 954182426, 263757392,
         -669164972, -986860147, -397240655, 557600063, 999785854, 522773141, -434874787,
         -992700842, -637842322, 303445488, 965746915, 740145082, -165942727, -919463558,
         -827633835, 25118619, 854777129, 898557489, 116208237, -772982333, -951496511,
         -255209185, 675716288, 985391322, 389102118, -564925779, -999563520, -515207172,
         442828274, 993729447, 631000348, -311867561, -968005873>>,
       <<-86591795, -885096062, -869847093, -54864718, 810560025, 930759618, 195223111,
         -719800625, -973042986, -331674114, 614634409, 995850890, 461486655, -497166283,
         -998726834, -582062540, 369747368, 981613251, 690988437, -234927960, -944852674,
         -786084198, 95406464, 889180862, 865446476, 46024590, -815712092, -927486839,
         -186534464, 725916836, 970963545, 323310847, -621592353, -995006411, -453616164,
         504826691, 999134214, 574842348, -377956923, -983264342, -684563060, 243522342,
         947714425, 780582237, -104213661, -893196000, -860978056, -37180859, 820800248,
         924141392, 177831201, -731976176, -968808033, -314922253, 628501594, 994083973,
         445710132, -512447550, -999463318, -567577121, 386136863, 984838395, 678084048,
         -252097646, -950501928, -775019121, 113012691, 897141156, 856442179, 28334212,
         -825824099, -920723542, -169114007, 737978166, 966576616, 306508983, -635361596,
         -993083654, -437769181, 520028258, 999714114, 560267424, -394286553, -986335291,
         -671551912, 260653197, 953214959, 769395283, -121802869, -901016025, -851839204,
         -19485347, 830783247, 917233555, 160383562, -743922339, -964269472, -298071701,
         642171817, 992005528, 429793930, -527568225, -999886588, -552913833, 402405349,
         987754909, 664967160, -269188329, -955853311, -763711167, 130583501, 904820300,
         847169487, 10634954, -835677307, -913671707, -151640553, 749808225, 961886779,
         289611064, -648931728, -990849683, -421785009, 535066857, 999980721, 545516922,
         -410492620, -989097141, -658330312, 277702369, 958416772>>
    >>

\* Math.sin(seed) * 10^9, floored, for an integer seed (radians)
MathSinE9(seed) ==
    LET a == (seed + 50) \div 100000
    IN  MathSinRows[a - 1][seed - (100000 * a - 50) + 1]

\* rng(): x = Math.sin(seed) * 10000; x - Math.floor(x), in units of 0.00001
rng(seed) == MathSinE9(seed) % 100000

----------------------------------------------------------------------------
(* Topic markers *)

\* this.topics
topics == <<"threejs", "webgl", "javascript">>

\* a createTopicFlag that registers the flag before it draws the flag's text
createTopicFlagEager(w, tape, fail) ==
    IF Len(topics) = 0 THEN w
    ELSE LET topic == topics[((Rnd(tape, w.k) * Len(topics)) \div 1000) + 1]
         IN  [w EXCEPT !.clickableFlags = Append(@, [topic |-> topic]),
                       !.k = @ + 2]

\* createTopicFlag(x, y, z): a random topic, a flag of a random colour, the flag
\* registered in clickableFlags.  fail: addTextToFlag throws (no 2d context for
\* the canvas), after the two Math.random() calls and before the flag is
\* registered; the exception is caught and null is returned.
createTopicFlag(w, tape, fail) ==
    IF Len(topics) = 0 THEN w
    ELSE IF fail THEN [w EXCEPT !.k = @ + 2, !.errorLog = @ \cup {"flag"}]
    ELSE LET topic == topics[((Rnd(tape, w.k) * Len(topics)) \div 1000) + 1]
         IN  [w EXCEPT !.clickableFlags = Append(@, [topic |-> topic]),
                       !.k = @ + 2]

----------------------------------------------------------------------------
(* VegetationInstancer: building a patch *)

\* addVegetation(posX, posY, posZ, scale, count): trees and bushes, five
\* Math.random() calls each; they are scene decoration only
addVegetation(w, count) == [w EXCEPT !.k = @ + 5 * count]

\* grassCount = floor(terrainSize^2 * density), terrainSize = baseScale * 2.5
\* (baseScale in thousandths)
grassCount(baseScale, isRiverbank) ==
    LET terrainSize == (baseScale * 5) \div 2
        grassDensity == IF isRiverbank THEN 80 ELSE 50
    IN  (((terrainSize * terrainSize) \div 1000) * grassDensity) \div 1000

\* Math.sqrt of a Math.random() value, in thousandths: the largest q in
\* lo..hi with q * q <= r * 1000, by bisection
RECURSIVE SqrtBisect(_, _, _)
SqrtBisect(r, lo, hi) ==
    IF hi <= lo THEN lo
    ELSE LET mid == (lo + hi + 1) \div 2
         IN  IF mid * mid <= r * 1000 THEN SqrtBisect(r, mid, hi)
             ELSE SqrtBisect(r, lo, mid - 1)

SqrtRnd(r) == SqrtBisect(r, 0, 1000)

\* one instance's transform: its position on the terrain (disk sampling) and
\* the blade's tilt; eleven Math.random() calls per instance (theta, radius,
\* height, width, yaw, tiltAmount, tilt x, tilt z, three of the colour)
GrassInstance(terrain, tape, k) ==
    LET theta == (Rnd(tape, k) * 2 * Pi) \div 1000
        radius == (((SqrtRnd(Rnd(tape, k + 1)) * terrain.xzScale) \div 1000) * 9) \div 10
        tiltAmount == Rnd(tape, k + 5) \div 5
    IN  [px |-> terrain.x + (Sin(theta + Pi \div 2) * radius) \div Unit,
         pz |-> terrain.z + (Sin(theta) * radius) \div Unit,
         rx |-> ((Rnd(tape, k + 6) - 500) * tiltAmount) \div 1000,
         rz |-> ((Rnd(tape, k + 7) - 500) * tiltAmount) \div 1000]

\* addGrassToTerrain(terrain, baseScale, isRiverbank)
addGrassToTerrain(w, terrain, baseScale, isRiverbank, tape) ==
    IF terrain = Null \/ ~w.grassTemplate
    THEN [w EXCEPT !.grassSkipped = @ + 1]
    ELSE LET count == Min(grassCount(baseScale, isRiverbank), MaxGrassCount)
             patch == [terrain |-> terrain.id,
                       count |-> count,
                       tr |-> [i \in 1..count |->
                                  GrassInstance(terrain, tape, w.k + 11 * (i - 1))]]
         IN  [w EXCEPT !.grassInstances = Append(@, patch),
                       !.k = @ + 11 * count]

----------------------------------------------------------------------------
(* RandomFeatureGenerator *)

\* a catch block of createTerrain that reports nothing
catchTerrainSilent(w) == w

\* the catch block of createTerrain: console.error and logDebug
catchTerrain(w) == [w EXCEPT !.errorLog = @ \cup {"terrain"}]

\* the loop indices of a cell's features whose createTerrain call throws
\* while the running handler has a failing feature
featureFaults(w) == IF w.fault = "feature" THEN {1} ELSE {}

\* createTerrain(posX, height, posZ, scale, color): the mesh is placed at
\* posX + xVariation, added to the scene and returned; an exception anywhere
\* in the body is caught and null is returned.  Math.random() calls: shape,
\* xVariation, xzScale, yScale, rotation, the vegetation's, the flag test.
createTerrain(w, posX, posZ, scale, pass, tape, fail) ==
    IF fail THEN [w |-> catchTerrain(w), terrain |-> Null]
    ELSE
    LET k == w.k
        xVariation == (Rnd(tape, k + 1) * 3) \div 10 - 150
        xzScale == (scale * (1000 + (Rnd(tape, k + 2) * 3) \div 10)) \div 1000
        vegCount == ((scale * 3) \div 1000) + 1
        w1 == addVegetation([w EXCEPT !.k = k + 5], vegCount)
        w2 == IF Rnd(tape, w1.k) < 300
              THEN createTopicFlag([w1 EXCEPT !.k = @ + 1], tape, w.fault = "flag")
              ELSE [w1 EXCEPT !.k = @ + 1]
        terrain == [id |-> Len(w.sceneTerrain) + 1,
                    x |-> posX + xVariation,
                    z |-> posZ,
                    xzScale |-> xzScale,
                    pass |-> pass]
    IN  [w |-> [w2 EXCEPT !.sceneTerrain = Append(@, terrain)],
         terrain |-> terrain]

----------------------------------------------------------------------------
(* TerrainGrid *)

\* digits of a natural number, and of an integer as JavaScript prints it
RECURSIVE NatStr(_)
NatStr(n) ==
    LET d == <<"0", "1", "2", "3", "4", "5", "6", "7", "8", "9">>[(n % 10) + 1]
    IN  IF n < 10 THEN d ELSE NatStr(n \div 10) \o d

IntStr(n) == IF n < 0 THEN "-" \o NatStr(-n) ELSE NatStr(n)

\* cellKey = `${gridX},${gridZ}`
CellKey(gridX, gridZ) == IntStr(gridX) \o "," \o IntStr(gridZ)

\* a lookup under a differently formatted key (`${gridX}, ${gridZ}`), which
\* matches no stored cell
CellExistsNever(grid, cellKey) ==
    \E i \in 1..Len(grid) : grid[i].key \o " " = cellKey

\* this.terrainGrid.some(t => t.key === cellKey)
CellExists(grid, cellKey) == \E i \in 1..Len(grid) : grid[i].key = cellKey

\* riverHalfWidth = riverWidth / 2 + 1 of createTerrainCell (the buffer zone)
cellBuffer == riverWidth \div 2 + 1000

\* the five sample points of a cell: four corners and the centre
pointsToCheck(gridX, gridZ) ==
    LET h == (gridSize * 1000) \div 2
        x == gridX * 1000
        z == gridZ * 1000
    IN  << [x |-> x - h, z |-> z - h], [x |-> x + h, z |-> z - h],
           [x |-> x - h, z |-> z + h], [x |-> x + h, z |-> z + h],
           [x |-> x, z |-> z] >>

\* the river test with its comparison turned round
intersectsRiverInverted(gridX, gridZ) ==
    LET pts == pointsToCheck(gridX, gridZ)
    IN  \E i \in 1..Len(pts) :
            Abs(pts[i].x - getRiverCurveOffset(pts[i].z)) > cellBuffer

\* the loop over pointsToCheck: distToRiver < riverHalfWidth for some point
intersectsRiver(gridX, gridZ) ==
    LET pts == pointsToCheck(gridX, gridZ)
    IN  \E i \in 1..Len(pts) :
            Abs(pts[i].x - getRiverCurveOffset(pts[i].z)) < cellBuffer

\* the feature loop of createTerrainCell: i-th feature of featureCount, the
\* seeded generator at `seed`; faults: the indices whose createTerrain throws
RECURSIVE GenFeatures(_, _, _, _, _, _, _, _, _)
GenFeatures(w, gridX, gridZ, i, featureCount, seed, features, tape, faults) ==
    IF i >= featureCount THEN [w |-> w, features |-> features]
    ELSE
    LET offsetX == Round((rng(seed) - 50000) * 8 * gridSize, 1000)
        offsetZ == Round((rng(seed + 1) - 50000) * 8 * gridSize, 1000)
        posX == gridX * 1000 + offsetX
        posZ == gridZ * 1000 + offsetZ
        distToRiver == Abs(posX - getRiverCurveOffset(posZ))
    IN  IF distToRiver < cellBuffer
        THEN GenFeatures(w, gridX, gridZ, i + 1, featureCount, seed + 2,
                         features, tape, faults)
        ELSE
        LET scale == 500 + rng(seed + 3) \div 100
        IN  Bind(createTerrain(w, posX, posZ, scale, "grid", tape, i \in faults),
                 LAMBDA c :
                   IF c.terrain # Null
                   THEN Bind(addGrassToTerrain(c.w, c.terrain, scale, FALSE, tape),
                             LAMBDA w1 :
                               GenFeatures(w1, gridX, gridZ, i + 1, featureCount,
                                           seed + 5, Append(features, c.terrain),
                                           tape, faults))
                   ELSE GenFeatures(c.w, gridX, gridZ, i + 1, featureCount,
                                    seed + 5, features, tape, faults))

\* Math.floor(rng() * 4) + 3
FeatureCount(seed) == ((rng(seed) * 4) \div 100000) + 3

\* let seed = Math.abs(gridX * 10000 + gridZ)
cellSeed(gridX, gridZ) == Abs(gridX * 10000 + gridZ)

\* createTerrainCell(gridX, gridZ)
createTerrainCell(w, gridX, gridZ, tape, faults) ==
    LET cellKey == CellKey(gridX, gridZ)
    IN  IF CellExists(w.terrainGrid, cellKey) THEN w
        ELSE IF intersectsRiver(gridX, gridZ) THEN w
        ELSE
        LET seed == cellSeed(gridX, gridZ)
        IN  Bind(GenFeatures(w, gridX, gridZ, 0, FeatureCount(seed), seed + 1,
                             <<>>, tape, faults),
                 LAMBDA g :
                   [g.w EXCEPT !.terrainGrid =
                       Append(@, [key |-> cellKey, x |-> gridX, z |-> gridZ,
                                  features |-> g.features])])

\* safeDistance = riverWidth / 2 + 0.5 of createExpandedTerrain
safeDistance == riverWidth \div 2 + 500

\* first loop of createExpandedTerrain: terrain on the left side
RECURSIVE ExpandedLeft(_, _, _)
ExpandedLeft(w, i, tape) ==
    IF i >= ExpandedCount THEN w
    ELSE
    LET k == w.k
        z == (Rnd(tape, k) - 500) * 18
        curveOffset == getRiverCurveOffset(z)
        minSafeDistanceLeft == -safeDistance + curveOffset
        leftX == Min(minSafeDistanceLeft - 500,
                     -2500 - curveOffset - Rnd(tape, k + 1) * 5)
        scale == 500 + (Rnd(tape, k + 3) * 8) \div 10
    IN  Bind(createTerrain([w EXCEPT !.k = k + 5], leftX, z, scale, "left",
                           tape, FALSE),
             LAMBDA c :
               Bind(IF c.terrain # Null
                    THEN addGrassToTerrain(c.w, c.terrain, scale, FALSE, tape)
                    ELSE c.w,
                    LAMBDA w1 : ExpandedLeft(w1, i + 1, tape)))

\* second loop: terrain on the right side
RECURSIVE ExpandedRight(_, _, _)
ExpandedRight(w, i, tape) ==
    IF i >= ExpandedCount THEN w
    ELSE
    LET k == w.k
        z == (Rnd(tape, k) - 500) * 18
        curveOffset == getRiverCurveOffset(z)
        minSafeDistanceRight == safeDistance + curveOffset
        rightX == Max(minSafeDistanceRight + 500,
                      2500 + curveOffset + Rnd(tape, k + 1) * 5)
        scale == 500 + (Rnd(tape, k + 3) * 8) \div 10
    IN  Bind(createTerrain([w EXCEPT !.k = k + 5], rightX, z, scale, "right",
                           tape, FALSE),
             LAMBDA c :
               Bind(IF c.terrain # Null
                    THEN addGrassToTerrain(c.w, c.terrain, scale, FALSE, tape)
                    ELSE c.w,
                    LAMBDA w1 : ExpandedRight(w1, i + 1, tape)))

\* third loop: smaller terrain close to the river banks
\*   edgeX = side * (riverWidth / 2 + curveOffset * 0.5)
\*   x = edgeX + side * (0.1 + Math.random() * 0.3)
BankX(side, curveOffset, r) ==
    LET edgeX == side * (riverWidth \div 2 + curveOffset \div 2)
        xOffset == side * (100 + (r * 3) \div 10)
    IN  edgeX + xOffset

RECURSIVE ExpandedBank(_, _, _)
ExpandedBank(w, i, tape) ==
    IF i >= BankCount THEN w
    ELSE
    LET k == w.k
        side == IF i % 2 = 0 THEN -1 ELSE 1
        z == (Rnd(tape, k) - 500) * 18
        curveOffset == getRiverCurveOffset(z)
        x == BankX(side, curveOffset, Rnd(tape, k + 1))
        scale == 300 + (Rnd(tape, k + 3) * 4) \div 10
    IN  Bind(createTerrain([w EXCEPT !.k = k + 4], x, z, scale, "bank",
                           tape, FALSE),
             LAMBDA c :
               Bind(IF c.terrain # Null
                    THEN addGrassToTerrain(c.w, c.terrain, scale, TRUE, tape)
                    ELSE c.w,
                    LAMBDA w1 : ExpandedBank(w1, i + 1, tape)))

\* createExpandedTerrain()
createExpandedTerrain(w, tape) ==
    Bind(ExpandedLeft(w, 0, tape),
         LAMBDA w1 : Bind(ExpandedRight(w1, 0, tape),
                          LAMBDA w2 : ExpandedBank(w2, 0, tape)))

\* the cells generateTerrainGrid visits, in loop order (x outer, z inner)
GridWidth == 2 * GridExtent + 1

GridSkips(x, z) == (x = 0 /\ z = 0) \/ (Abs(x) <= 1 /\ Abs(z) <= 8)

\* the body of the nested loops for the n-th pair (x, z)
GridStep(w, n, tape) ==
    LET x == (n \div GridWidth) - GridExtent
        z == (n % GridWidth) - GridExtent
    IN  IF GridSkips(x, z) THEN w
        ELSE createTerrainCell(w, x * gridSize, z * gridSize, tape, featureFaults(w))

\* the iterations lo .. hi - 1 of the nested loops, in order
RECURSIVE GridLoop(_, _, _, _)
GridLoop(w, lo, hi, tape) ==
    IF hi <= lo THEN w
    ELSE IF hi = lo + 1 THEN GridStep(w, lo, tape)
    ELSE LET mid == (lo + hi) \div 2
         IN  Bind(GridLoop(w, lo, mid, tape),
                  LAMBDA w1 : GridLoop(w1, mid, hi, tape))

\* generateTerrainGrid()
generateTerrainGrid(w, tape) ==
    Bind(GridLoop(w, 0, GridWidth * GridWidth, tape),
         LAMBDA w1 : createExpandedTerrain(w1, tape))

----------------------------------------------------------------------------
(* RiverSystem: the water mesh *)

\* cos and sin of an Object3D rotation about the x axis
Cos(a) == Sin(a + Pi \div 2)

\* row j of PlaneGeometry(riverWidth, riverLength, 64, 64): the local y of the
\* row and the local x of its two edge vertices
PlaneRow(j) ==
    [y  |-> riverLength \div 2 - j * (riverLength \div waterSegments),
     xl |-> -(riverWidth \div 2),
     xr |-> riverWidth \div 2]

\* the curve loop of createNaturalRiver: positions[i] += getRiverCurveOffset(y),
\* y the vertex's local y
WarpRow(row) ==
    LET curveOffset == getRiverCurveOffset(row.y)
    IN  [row EXCEPT !.xl = @ + curveOffset, !.xr = @ + curveOffset]

\* this.river: the warped geometry, rotation.x = -Math.PI / 2, position.y = -0.4
RiverMesh ==
    [rows |-> [j \in 1..(waterSegments + 1) |-> WarpRow(PlaneRow(j - 1))],
     rotationX |-> -(Pi \div 2),
     y |-> -400,
     hue |-> 0]

\* a local vertex (x, y, 0) of a mesh rotated by rotationX about the x axis and
\* translated to (0, posY, 0), in world coordinates
ToWorld(x, y, rotationX, posY) ==
    [x |-> x,
     y |-> (y * Cos(rotationX)) \div Unit + posY,
     z |-> (y * Sin(rotationX)) \div Unit]

\* the water mesh in world space: per row its world z and lateral centre
RiverWorldRows(river) ==
    [j \in DOMAIN river.rows |->
        LET row == river.rows[j]
            l == ToWorld(row.xl, row.y, river.rotationX, river.y)
            r == ToWorld(row.xr, row.y, river.rotationX, river.y)
        IN  [z |-> l.z, centre |-> (l.x + r.x) \div 2]]

----------------------------------------------------------------------------
(* RiverSystem: foam *)

\* riverHalfWidth = riverWidth / 2 * 0.9 of the foam code
foamHalfWidth == ((riverWidth \div 2) * 9) \div 10
foamY == -380
foamLower == -100000
foamUpper == 100000
foamStep == 50

\* createInfiniteWaterFoamParticles(): two Math.random() calls per particle
FoamParticle(tape, k) ==
    LET z == Rnd(tape, k) * 200 - 100000
        curveOffset == getRiverCurveOffset(z)
        widthOffset == ((Rnd(tape, k + 1) - 500) * foamHalfWidth * 2) \div 1000
    IN  [x |-> curveOffset + widthOffset, y |-> foamY, z |-> z]

createInfiniteWaterFoamParticles(w, tape) ==
    IF w.fault = "setupFoam" THEN [w EXCEPT !.errorLog = @ \cup {"foam"}]
    ELSE [w EXCEPT !.waterFoam = [i \in 1..FoamCount |-> FoamParticle(tape, w.k + 2 * (i - 1))],
                   !.k = @ + 2 * FoamCount]

\* a reset that forgets to centre the random offset: Math.random() for
\* Math.random() - 0.5
FoamResetXUncentred(r) ==
    getRiverCurveOffset(foamUpper) + (r * foamHalfWidth * 2) \div 1000

\* the x a recycled particle gets: the curve at the upper bound plus a random
\* offset within the river
FoamResetX(r) ==
    getRiverCurveOffset(foamUpper) + ((r - 500) * foamHalfWidth * 2) \div 1000

\* the foam loop's particle update without the test that keeps a particle
\* within the river's bounds
FoamAdvanceUnclamped(p, time, r) ==
    LET newZ == p.z - foamStep
        x1 == p.x + (getRiverCurveOffset(newZ) - getRiverCurveOffset(p.z))
        x2 == x1 + Round(Sin(20 * time + 10 * newZ) * 3, Unit)
    IN  IF newZ < foamLower
        THEN [p EXCEPT !.z = foamUpper, !.x = FoamResetX(r)]
        ELSE [p EXCEPT !.z = newZ, !.x = x2]

\* one particle of the foam loop of animate(); r: the Math.random() value a
\* reset would use; time: elapsedTime in milliseconds
FoamAdvance(p, time, r) ==
    LET oldZ == p.z
        newZ == p.z - foamStep
        x1 == p.x + (getRiverCurveOffset(newZ) - getRiverCurveOffset(oldZ))
        wobble == Round(Sin(20 * time + 10 * newZ) * 3, Unit)
        x2 == x1 + wobble
        centre == getRiverCurveOffset(newZ)
        x3 == IF Abs(x2 - centre) > foamHalfWidth
              THEN centre + (IF x2 > centre THEN -1 ELSE 1) * foamHalfWidth
              ELSE x2
    IN  IF newZ < foamLower
        THEN [p EXCEPT !.z = foamUpper, !.x = FoamResetX(r)]
        ELSE [p EXCEPT !.z = newZ, !.x = x3]

\* the foam loop over all particles; each reset consumes one Math.random()
RECURSIVE FoamLoop(_, _, _, _, _)
FoamLoop(foam, i, time, tape, k) ==
    IF i > Len(foam) THEN [foam |-> foam, k |-> k]
    ELSE LET q == FoamAdvance(foam[i], time, Rnd(tape, k))
             reset == foam[i].z - foamStep < foamLower
         IN  FoamLoop([foam EXCEPT ![i] = q], i + 1, time, tape,
                      IF reset THEN k + 1 ELSE k)

\* the water tint of animate(): hue = 0.58 + sin(t*0.5)*0.02 + sin(t*0.2)*0.01
WaterHue(time) ==
    580 + Round(Sin(5 * time) * 20, Unit) + Round(Sin(2 * time) * 10, Unit)

----------------------------------------------------------------------------
(* VegetationInstancer: wind *)

\* per-frame caps of animateGrass
windPatchCap == 5
windInstanceCap == 15

\* the tilt animateGrass derives for one instance: windFactor =
\* sin(time*0.4 + x*0.5 + z*0.5) * 0.03, rotation.x = windFactor * 0.3,
\* rotation.z = windFactor * 0.5 (thousandths of a radian)
WindTilt(inst, time) ==
    LET windFactor == Round(Sin(4 * time + 5 * inst.px + 5 * inst.pz) * 30, Unit)
    IN  [inst EXCEPT !.rx = (windFactor * 3) \div 10, !.rz = windFactor \div 2]

\* a write that is off by one slot on top of the intended one
setMatrixAtSpill(tr, index, m) ==
    [tr EXCEPT ![index] = m, ![(index % Len(tr)) + 1] = m]

\* mesh.setMatrixAt(index, dummy.matrix)
setMatrixAt(tr, index, m) == [tr EXCEPT ![index] = m]

\* an instance loop that runs over the whole patch instead of updateCount
RECURSIVE WindInstancesUncapped(_, _, _, _, _, _, _, _)
WindInstancesUncapped(tr, count, i, time, tape, k, written, bad) ==
    IF i >= count THEN [tr |-> tr, written |-> written]
    ELSE LET index == ((Rnd(tape, k + i) * count) \div 1000) + 1
         IN  WindInstancesUncapped(setMatrixAt(tr, index, WindTilt(tr[index], time)),
                                   count, i + 1, time, tape, k,
                                   written \cup {index}, bad)

\* the instance loop of animateGrass over one patch: updateCount random
\* instances are rewritten; returns the transforms and the indices written.
\* bad: the instances whose update throws inside the inner try, which the
\* catch skips with `continue`
RECURSIVE WindInstances(_, _, _, _, _, _, _, _)
WindInstances(tr, count, i, time, tape, k, written, bad) ==
    IF i >= Min(windInstanceCap, count) THEN [tr |-> tr, written |-> written]
    ELSE LET index == ((Rnd(tape, k + i) * count) \div 1000) + 1
         IN  IF index \in bad
             THEN WindInstances(tr, count, i + 1, time, tape, k, written, bad)
             ELSE WindInstances(setMatrixAt(tr, index, WindTilt(tr[index], time)),
                                count, i + 1, time, tape, k, written \cup {index},
                                bad)

\* animateGrass(time): up to windPatchCap random patches
RECURSIVE WindPatches(_, _, _, _, _, _, _, _)
WindPatches(grass, j, time, tape, k, touched, picks, bad) ==
    IF j >= Min(windPatchCap, Len(grass))
    THEN [grass |-> grass, k |-> k, touched |-> touched, picks |-> picks]
    ELSE LET randomIndex == ((Rnd(tape, k) * Len(grass)) \div 1000) + 1
             patch == grass[randomIndex]
         IN  Bind(WindInstances(patch.tr, patch.count, 0, time, tape, k + 1, {},
                                bad),
                  LAMBDA u :
                    WindPatches([grass EXCEPT ![randomIndex].tr = u.tr], j + 1,
                                time, tape,
                                k + 1 + Min(windInstanceCap, patch.count),
                                touched \cup {<<randomIndex, index>> :
                                                 index \in u.written},
                                Append(picks, randomIndex),
                                bad))

\* the instances of a patch whose update throws in this frame: the first
\* instance of every patch when the frame's fault is a grass instance
badInstances(w) == IF w.fault = "instance" THEN {1} ELSE {}

\* animateGrass(time): the body runs in a try whose catch reports the error
\* and returns; an exception of one instance's update is caught inside
animateGrass(w, time, tape) ==
    IF Len(w.grassInstances) = 0
    THEN [w EXCEPT !.windTouched = {}, !.windPicks = <<>>]
    ELSE IF w.fault = "grass"
    THEN [w EXCEPT !.windTouched = {}, !.windPicks = <<>>,
                   !.errorLog = @ \cup {"grass"}]
    ELSE Bind(WindPatches(w.grassInstances, 0, time, tape, w.k, {}, <<>>,
                          badInstances(w)),
              LAMBDA u : [w EXCEPT !.grassInstances = u.grass, !.k = u.k,
                                   !.windTouched = u.touched,
                                   !.windPicks = u.picks])

----------------------------------------------------------------------------
(* RenderLoop *)

\* Vector3.applyAxisAngle((0,1,0), a) of the vector (0, y, z)
RotateY(y, z, a) ==
    [x |-> (z * Sin(a)) \div Unit, y |-> y, z |-> (z * Cos(a)) \div Unit]

\* Vector3.lerp(target, alpha), alpha in hundredths
Lerp(v, target, alpha) ==
    [x |-> v.x + ((target.x - v.x) * alpha) \div 100,
     y |-> v.y + ((target.y - v.y) * alpha) \div 100,
     z |-> v.z + ((target.z - v.z) * alpha) \div 100]

Vec(x, y, z) == [x |-> x, y |-> y, z |-> z]
VecAdd(a, b) == [x |-> a.x + b.x, y |-> a.y + b.y, z |-> a.z + b.z]

\* the camera position target of follow mode: the flamingo's position plus
\* (0, 4, 10) turned by rotation.y + Math.PI
FollowTargetPos(flamingo) ==
    VecAdd(flamingo.position, RotateY(4000, 10000, flamingo.yaw + Pi))

\* the look target of follow mode: the flamingo's position plus (0, 0, -10)
\* turned by rotation.y
FollowTargetLook(flamingo) ==
    VecAdd(flamingo.position, RotateY(0, -10000, flamingo.yaw))

\* the follow block without the presence test of the actor: it runs whenever
\* follow mode is on, and reading the position of an absent actor throws
cameraFollowUnguarded(w) ==
    IF w.isFollowingFlamingo
    THEN [w EXCEPT !.frameLog = Append(@, "camera"),
                   !.errorLog = IF w.flamingo = Null THEN @ \cup {"animation"} ELSE @]
    ELSE w

\* the camera-follow block of animate()
cameraFollow(w) ==
    IF w.isFollowingFlamingo /\ w.flamingo # Null
    THEN LET targetPos == FollowTargetPos(w.flamingo)
             targetLook == FollowTargetLook(w.flamingo)
             smoothLookTarget == Lerp(Vec(0, 0, 0), targetLook, 10)
         IN  [w EXCEPT !.camera = [position |-> Lerp(w.camera.position, targetPos, 5),
                                   lookAt |-> smoothLookTarget],
                       !.frameLog = Append(@, "camera")]
    ELSE w

\* if (this.flamingoMixer) this.flamingoMixer.update(deltaTime)
mixerTick(w) ==
    IF w.flamingoMixer THEN [w EXCEPT !.frameLog = Append(@, "mixer")] ELSE w

windStage(w, time, tape) ==
    [animateGrass(w, time, tape) EXCEPT !.frameLog = Append(@, "grass")]

\* the foam block of animate()
foamStage(w, time, tape) ==
    IF w.waterFoam # Null
    THEN Bind(FoamLoop(w.waterFoam, 1, time, tape, w.k),
              LAMBDA u : [w EXCEPT !.waterFoam = u.foam, !.k = u.k,
                                   !.frameLog = Append(@, "foam")])
    ELSE w

\* the water shimmer block of animate()
tintStage(w, time) ==
    IF w.river # Null
    THEN [w EXCEPT !.river.hue = WaterHue(time), !.frameLog = Append(@, "tint")]
    ELSE w

\* this.controls.update()
controlsUpdate(w) == [w EXCEPT !.frameLog = Append(@, "controls")]

\* this.renderer.render(this.scene, this.camera): what the frame draws
renderStage(w) ==
    [w EXCEPT !.rendered = [camera |-> w.camera,
                            grass |-> w.grassInstances,
                            foam |-> w.waterFoam,
                            hue |-> IF w.river # Null THEN w.river.hue ELSE 0],
              !.frameLog = Append(@, "render")]

ApplyStage(w, stage, time, tape) ==
    CASE stage = "mixer"  -> mixerTick(w)
      [] stage = "camera" -> cameraFollow(w)
      [] stage = "grass"  -> windStage(w, time, tape)
      [] stage = "foam"   -> foamStage(w, time, tape)
      [] stage = "tint"   -> tintStage(w, time)
      [] stage = "controls" -> controlsUpdate(w)
      [] stage = "render" -> renderStage(w)

\* the render call placed before the foam block
animateStagesRenderEarly ==
    <<"mixer", "camera", "grass", "render", "foam", "tint", "controls">>

\* the statements of the try block of animate(), in source order
animateStages == <<"mixer", "camera", "grass", "foam", "tint", "controls", "render">>

\* the guard of a stage: whether its statements run in this frame
StageRuns(w, stage) ==
    CASE stage = "mixer"  -> w.flamingoMixer
      [] stage = "camera" -> w.isFollowingFlamingo /\ w.flamingo # Null
      [] stage = "foam"   -> w.waterFoam # Null
      [] stage = "tint"   -> w.river # Null
      [] OTHER -> TRUE

\* the stages whose exception reaches the catch of animate(): all but the
\* grass stage, which catches its own
StageThrows(w, stage) ==
    w.fault = stage /\ stage # "grass" /\ StageRuns(w, stage)

\* the catch block of animate(): console.error and logDebug
catchAnimate(w) == [w EXCEPT !.errorLog = @ \cup {"animation"}]

\* the try block of animate(): the stages in order up to the first that throws
RECURSIVE RunStages(_, _, _, _, _)
RunStages(w, stages, i, time, tape) ==
    IF i > Len(stages) THEN w
    ELSE IF StageThrows(w, stages[i]) THEN catchAnimate(w)
    ELSE Bind(ApplyStage(w, stages[i], time, tape),
              LAMBDA w1 : RunStages(w1, stages, i + 1, time, tape))

\* the request placed at the end of the try block, which a frame with a
\* failing stage never reaches
scheduleFrameAfterTry(w) ==
    IF w.fault \in {"foam", "tint", "controls", "render"} THEN w
    ELSE [w EXCEPT !.rafPending = TRUE]

\* requestAnimationFrame(this.animate.bind(this))
scheduleFrame(w) == [w EXCEPT !.rafPending = TRUE]

\* animate(): schedules the next frame, then runs the stages
animate(w, time, tape) ==
    RunStages([scheduleFrame(w) EXCEPT !.frameLog = <<>>],
              animateStages, 1, time, tape)

----------------------------------------------------------------------------
(* ActorAnimator *)

pointCount == 8

\* Math.atan2(dx, dz) by bisection on the angle a with sin(a)*dz = cos(a)*dx
RECURSIVE AtanBisect(_, _, _, _, _)
AtanBisect(dx, dz, lo, hi, n) ==
    LET mid == (lo + hi) \div 2
        f == Sin(mid) * dz - Cos(mid) * dx
    IN  IF n = 0 \/ hi - lo <= 1 THEN mid
        ELSE IF f < 0 THEN AtanBisect(dx, dz, mid, hi, n - 1)
        ELSE AtanBisect(dx, dz, lo, mid, n - 1)

\* arguments in hundredths of a unit, result in 0.0001 rad
Atan2(dx, dz) ==
    IF dx = 0 /\ dz = 0 THEN 0
    ELSE IF dz > 0 THEN AtanBisect(dx, dz, -(Pi \div 2), Pi \div 2, 20)
    ELSE IF dx >= 0 THEN Pi - AtanBisect(dx, -dz, -(Pi \div 2), Pi \div 2 + 1, 20)
    ELSE -Pi - AtanBisect(dx, -dz, -(Pi \div 2) - 1, Pi \div 2, 20)

\* explore point i of animateFlamingoFlight and the number of Math.random()
\* calls it makes: even i near the river, odd i over the terrain
ExplorePoint(i, tape, k) ==
    IF i % 2 = 0
    THEN LET z == 40000 + (i * 80000) \div pointCount
         IN  Vec(getRiverCurveOffset(z) + (Rnd(tape, k) - 500) * 3,
                 1500 + Rnd(tape, k + 1) \div 2, z)
    ELSE LET side == IF Rnd(tape, k) > 500 THEN 1 ELSE -1
             z == -40000 + (i * 80000) \div pointCount
         IN  Vec(getRiverCurveOffset(z) + side * (3000 + Rnd(tape, k + 1) * 5),
                 2000 + (Rnd(tape, k + 2) * 3) \div 2, z)

PointCalls(i) == IF i % 2 = 0 THEN 2 ELSE 3

RECURSIVE ExplorePoints(_, _, _, _)
ExplorePoints(i, tape, k, points) ==
    IF i >= pointCount THEN [points |-> points, k |-> k]
    ELSE ExplorePoints(i + 1, tape, k + PointCalls(i),
                       Append(points, ExplorePoint(i, tape, k)))

\* Math.sqrt(n) for an integer n: the largest q in lo..hi with q * q <= n
RECURSIVE IsqrtBisect(_, _, _)
IsqrtBisect(n, lo, hi) ==
    IF hi <= lo THEN lo
    ELSE LET mid == (lo + hi + 1) \div 2
         IN  IF mid * mid <= n THEN IsqrtBisect(n, mid, hi)
             ELSE IsqrtBisect(n, lo, mid - 1)

\* the Euclidean distance of two points, in hundredths of a unit
Distance(a, b) ==
    LET dx == (b.x - a.x) \div 10
        dy == (b.y - a.y) \div 10
        dz == (b.z - a.z) \div 10
    IN  IsqrtBisect(dx * dx + dy * dy + dz * dz, 0, 40000)

\* the duration of the tween to points[index], in milliseconds: 5 for the
\* last point, else 2 + distance * 0.3 with the distance taken from
\* points[index] to points[index + 1]
flightDuration(points, index) ==
    IF index < Len(points)
    THEN 2000 + 3 * Distance(points[index], points[index + 1])
    ELSE 5000

\* the forEach of animateFlamingoFlight: per point one position tween,
\* followed by a hover tween when Math.random() > 0.7
RECURSIVE FlightTweens(_, _, _, _, _)
FlightTweens(points, index, tape, k, tweens) ==
    IF index > Len(points) THEN tweens
    ELSE
    LET point == points[index]
        targetRotation ==
            IF index < Len(points)
            THEN Atan2((points[index + 1].x - point.x) \div 10,
                       (points[index + 1].z - point.z) \div 10)
            ELSE 0
        transit == [kind |-> "transit", index |-> index - 1, to |-> point,
                    targetRotation |-> targetRotation,
                    duration |-> flightDuration(points, index)]
        hover == [kind |-> "hover", index |-> index - 1, to |-> point,
                  targetRotation |-> targetRotation, duration |-> 1500]
    IN  FlightTweens(points, index + 1, tape, k + 1,
                     IF Rnd(tape, k) > 700 THEN tweens \o <<transit, hover>>
                     ELSE Append(tweens, transit))

\* animateFlamingoFlight(): a new repeating gsap timeline over freshly
\* generated explore points
animateFlamingoFlight(w, tape) ==
    IF w.flamingo = Null THEN w
    ELSE Bind(ExplorePoints(0, tape, w.k, <<>>),
              LAMBDA e :
                LET timeline == [gen |-> w.generated + 1,
                                 explorePoints |-> e.points,
                                 tweens |-> FlightTweens(e.points, 1, tape, e.k, <<>>),
                                 pos |-> 1,
                                 repeats |-> 0]
                IN  [w EXCEPT !.timelines = Append(@, timeline),
                              !.generated = @ + 1,
                              !.k = e.k + pointCount])

\* the success callback of loader.load in loadFlamingo()
flamingoLoaded(w, tape) ==
    animateFlamingoFlight(
        [w EXCEPT !.flamingo = [position |-> Vec(0, 1500, 8000), yaw |-> 0],
                  !.flamingoMixer = TRUE,
                  !.loadState = "loaded"],
        tape)

\* an error callback that reports nothing
flamingoFailedSilent(w) == [w EXCEPT !.loadState = "failed"]

\* the error callback of loader.load: the failure is logged
flamingoFailed(w) ==
    [w EXCEPT !.loadState = "failed", !.errorLog = @ \cup {"flamingo"}]

\* gsap: the current tween of timeline i runs to its end.  A position tween
\* leaves the flamingo at its point, turned toward the next one; a hover
\* (yoyo, repeat 1) ends where it began.  After the last tween the timeline
\* repeats (repeat: -1) and onRepeat calls animateFlamingoFlight().
tweenComplete(w, i, tape) ==
    LET tl == w.timelines[i]
        tween == tl.tweens[tl.pos]
        last == tl.pos = Len(tl.tweens)
        w1 == IF tween.kind = "transit"
              THEN [w EXCEPT !.flamingo = [position |-> tween.to,
                                           yaw |-> tween.targetRotation],
                             !.driver = tl.gen]
              ELSE [w EXCEPT !.driver = tl.gen]
        w2 == [w1 EXCEPT !.timelines[i].pos = IF last THEN 1 ELSE @ + 1,
                         !.timelines[i].repeats = IF last THEN Min(@ + 1, MaxRepeats) ELSE @]
    IN  IF last THEN animateFlamingoFlight(w2, tape) ELSE w2

----------------------------------------------------------------------------
(* InteractionPicker *)

\* openTopicMarkdown(topicData): a modal for the topic is added to the page
openTopicMarkdown(w, topicData) ==
    [w EXCEPT !.topicEvents = Append(@, topicData), !.modals = @ + 1]

\* a ray test that stops at the first object of the scene the ray meets,
\* registered or not
intersectObjectsNearest(ray, objects) ==
    IF Len(ray) > 0 /\ ray[1].kind # "flag" THEN <<>>
    ELSE LET along == SelectSeq(ray, LAMBDA o : o.kind = "flag" /\ o.index \in 1..Len(objects))
         IN  [j \in 1..Len(along) |-> along[j].index]

\* raycaster.intersectObjects(this.clickableFlags); ray: the objects of the
\* scene the pick ray passes through, nearest to the camera first.  Only the
\* objects of the given list are tested; the result keeps the order of
\* distance and holds the indices into the list.
intersectObjects(ray, objects) ==
    LET along == SelectSeq(ray, LAMBDA o : o.kind = "flag" /\ o.index \in 1..Len(objects))
    IN  [j \in 1..Len(along) |-> along[j].index]

\* a handler that takes the first registered flag instead of the first
\* intersected one
onMouseClickFirstFlag(w, pt, hits) ==
    LET w1 == [w EXCEPT !.mouse = [x |-> pt[1], y |-> pt[2]]]
    IN  IF Len(w1.clickableFlags) > 0
        THEN [w1 EXCEPT !.topicEvents = Append(@, w1.clickableFlags[1].topic),
                        !.modals = @ + 1]
        ELSE w1

\* onMouseClick(event); pt: the event's position in normalized device
\* coordinates (thousandths), stored in this.mouse; hits: the indices into
\* clickableFlags of the flags the pick ray intersects, nearest first
\* (raycaster.intersectObjects)
onMouseClick(w, pt, hits) ==
    LET w1 == [w EXCEPT !.mouse = [x |-> pt[1], y |-> pt[2]]]
    IN  IF Len(hits) > 0
        THEN LET clickedFlag == w1.clickableFlags[hits[1]]
             IN  openTopicMarkdown(w1, clickedFlag.topic)
        ELSE w1

\* closeButton.onclick: the modal is removed from the page
closeModal(w) == [w EXCEPT !.modals = @ - 1]

\* a click on an element of the page: the element's own listener runs first
\* ("close": the close button of a modal, "modal": a modal's overlay or
\* content, which has none), then the event bubbles to the window, whose
\* click listener is onMouseClick while the scene listens
pageClick(w, target, pt, hits) ==
    LET w1 == IF target = "close" THEN closeModal(w) ELSE w
    IN  IF w1.listening THEN onMouseClick(w1, pt, hits) ELSE w1

\* a listener that flips the follow flag and leaves the controls alone
toggleFollowOnly(w) == [w EXCEPT !.isFollowingFlamingo = ~@]

\* the click listener of the follow button
toggleFollow(w) ==
    LET following == ~w.isFollowingFlamingo
    IN  [w EXCEPT !.isFollowingFlamingo = following,
                  !.controlsEnabled = ~following]

----------------------------------------------------------------------------
(* Setup *)

\* createTerrainFeatures(x, y, z, scale, isRiverbank): a small mound added to
\* the scene, with grass when it lies on a riverbank (rotation: one
\* Math.random() call)
createTerrainFeatures(w, x, z, scale, isRiverbank, tape) ==
    IF isRiverbank
    THEN addGrassToTerrain([w EXCEPT !.k = @ + 1],
                           [id |-> 0, x |-> x, z |-> z, xzScale |-> scale],
                           scale, TRUE, tape)
    ELSE [w EXCEPT !.k = @ + 1]

\* innerEdgeX = side * (riverHalfWidth + curveOffset * 0.5)
innerEdgeX(side, curveOffset) == side * (riverWidth \div 2 + Round(curveOffset, 2))

\* createRiverbankTerrain(side, zPos, curveOffset, segmentLength): one bank
\* mesh at (centerX, -0.45, zPos + segmentLength / 2).  Math.random() calls:
\* bankWidth, bankHeight, terrainType, the vegetation test and the three
\* coordinates of the vegetation patch; the displacement of the mesh's
\* vertices shapes the silhouette only
createRiverbankTerrain(w, side, zPos, curveOffset, segmentLength, tape) ==
    LET k == w.k
        bankWidth == 1500 + Rnd(tape, k) \div 2
        edge == innerEdgeX(side, curveOffset)
        centerX == edge + side * (bankWidth \div 2)
        bank == [side |-> side, zPos |-> zPos, bankWidth |-> bankWidth,
                 innerEdgeX |-> edge,
                 x |-> centerX, y |-> -450, z |-> zPos + segmentLength \div 2]
        w1 == [w EXCEPT !.riverbanks = Append(@, bank), !.k = k + 4]
    IN  IF Rnd(tape, k + 3) > 600
        THEN createTerrainFeatures([w1 EXCEPT !.k = @ + 3],
                                   centerX + side * ((Rnd(tape, k + 4) * 3) \div 10),
                                   zPos + (segmentLength * ((Rnd(tape, k + 5) * 8) \div 10)) \div 1000,
                                   200 + (Rnd(tape, k + 6) * 3) \div 10,
                                   TRUE, tape)
        ELSE w1

\* the n-th call of createRiverbankTerrain: segment i = n mod segments of
\* the left side (n < segments) or of the right side
BankSegment(w, n, length, tape) ==
    LET side == IF n < bankSegments THEN -1 ELSE 1
        i == n % bankSegments
        zPos == (i * length) \div bankSegments - length \div 2
        nextZPos == ((i + 1) * length) \div bankSegments - length \div 2
        curveOffset == getRiverCurveOffset(zPos)
    IN  createRiverbankTerrain(w, side, zPos, curveOffset, nextZPos - zPos, tape)

\* the calls lo .. hi in order
RECURSIVE BankLoop(_, _, _, _, _)
BankLoop(w, lo, hi, length, tape) ==
    IF lo = hi THEN BankSegment(w, lo, length, tape)
    ELSE LET mid == (lo + hi) \div 2
         IN  Bind(BankLoop(w, lo, mid, length, tape),
                  LAMBDA w1 : BankLoop(w1, mid + 1, hi, length, tape))

\* createNaturalRiverbanks(riverLength): the left side, then the right side
createNaturalRiverbanks(w, length, tape) ==
    BankLoop(w, 0, 2 * bankSegments - 1, length, tape)

\* createNaturalRiver(): the water mesh, the banks and the foam; the pebbles,
\* sand and plants of addEnhancedRiverbankDetails are scene decoration only
createNaturalRiver(w, tape) ==
    IF w.fault = "setupRiver" THEN [w EXCEPT !.errorLog = @ \cup {"river"}]
    ELSE createInfiniteWaterFoamParticles(
             createNaturalRiverbanks([w EXCEPT !.river = RiverMesh], riverLength, tape),
             tape)

\* loadFlamingo(): starts the asynchronous load; its own catch reports a
\* failure to start it
loadFlamingo(w) ==
    IF w.fault = "setupLoad" THEN [w EXCEPT !.errorLog = @ \cup {"loadFlamingo"}]
    ELSE [w EXCEPT !.loadState = "pending"]

\* createGrassInstances(): the shared blade geometry and material
createGrassInstances(w) == [w EXCEPT !.grassTemplate = TRUE, !.templatesBuilt = @ + 1]

\* a catch block of init() that lets the exception go on to the caller
catchInitRethrow(w, reached) ==
    [w EXCEPT !.errorLog = @ \cup {"init"}, !.thrown = TRUE, !.phase = reached]

\* the catch block of init(): console.error and logDebug; the steps after
\* the failing one do not run
catchInit(w, reached) ==
    [w EXCEPT !.errorLog = @ \cup {"init"}, !.phase = reached]

\* init(), in source order: environment, controls, follow button, river,
\* model load, grass template, first animate() call, listeners
init(w, tape) ==
    IF w.fault = "setupTerrain" THEN catchInit(w, "aborted")
    ELSE LET w1 == generateTerrainGrid(w, tape)
             w2 == [w1 EXCEPT !.controlsEnabled = TRUE, !.isFollowingFlamingo = FALSE]
             w3 == createNaturalRiver(w2, tape)
             w4 == loadFlamingo(w3)
         IN  IF w.fault = "setupGrass" THEN catchInit(w4, "ready")
             ELSE [animate(createGrassInstances(w4), 0, tape)
                      EXCEPT !.listening = TRUE, !.phase = "ready"]

----------------------------------------------------------------------------
(* Portfolio3D, the hosting component *)

\* useState(true), useState(null), let scene3D = null; mounted: the effect
\* of this component instance has run
FreshShell == [mounted |-> FALSE, scene3D |-> FALSE, isLoading |-> TRUE, error |-> Null]

\* the fields of a scene that does not exist yet
FreshScene ==
    [phase |-> "new", terrainGrid |-> <<>>, sceneTerrain |-> <<>>,
     clickableFlags |-> <<>>, grassTemplate |-> FALSE, templatesBuilt |-> 0,
     grassSkipped |-> 0, grassInstances |-> <<>>, windTouched |-> {},
     windPicks |-> <<>>,
     river |-> Null, riverbanks |-> <<>>, waterFoam |-> Null, loadState |-> "none",
     flamingo |-> Null, flamingoMixer |-> FALSE, timelines |-> <<>>,
     generated |-> 0, driver |-> 0, isFollowingFlamingo |-> FALSE,
     controlsEnabled |-> TRUE,
     camera |-> [position |-> Vec(0, 0, 0), lookAt |-> Vec(0, 0, -1000)],
     rafPending |-> FALSE, listening |-> FALSE, frameLog |-> <<>>,
     rendered |-> Null, mouse |-> [x |-> 0, y |-> 0]]

\* new Scene3D(container): the renderer is created before init() and outside
\* any try block, so a missing drawing context throws out of the constructor
constructor(w, tape) ==
    IF w.fault = "context" THEN [w EXCEPT !.thrown = TRUE]
    ELSE init([w EXCEPT !.camera = [position |-> Vec(0, 6000, 15000),
                                    lookAt |-> Vec(0, 0, 0)]], tape)

\* the effect of Portfolio3D: scene3D = new Scene3D(container), then
\* setIsLoading(false)
mountEffect(w, tape) ==
    Bind(constructor(w, tape),
         LAMBDA w1 :
            IF w1.thrown
            THEN [w EXCEPT !.shell = [mounted |-> TRUE, scene3D |-> FALSE,
                                      isLoading |-> FALSE, error |-> [message |-> "no context"]]]
            ELSE [w1 EXCEPT !.shell = [mounted |-> TRUE, scene3D |-> TRUE,
                                       isLoading |-> FALSE, error |-> Null]])

\* the window listeners init() registered: bound copies of the methods
sceneListeners(w) ==
    IF w.listening
    THEN {[type |-> "resize", fn |-> "onWindowResize.bind(this)"],
          [type |-> "click", fn |-> "onMouseClick.bind(this)"]}
    ELSE {}

\* window.removeEventListener(type, fn): removes the listener that was
\* registered with this very function
removeEventListener(listeners, type, fn) == listeners \ {[type |-> type, fn |-> fn]}

\* the cleanup function of the effect: it removes the resize listener by the
\* unbound method, takes the canvas out of the container and drops the scene
cleanup(w) ==
    IF ~w.shell.scene3D THEN [w EXCEPT !.shell = FreshShell]
    ELSE LET left == removeEventListener(sceneListeners(w), "resize", "onWindowResize")
             gone == [rafPending |-> w.rafPending, listeners |-> left, ran |-> {}]
         IN  [k \in DOMAIN w |->
                 IF k \in DOMAIN FreshScene THEN FreshScene[k]
                 ELSE IF k = "shell" THEN FreshShell
                 ELSE IF k = "tornDown" THEN Append(w.tornDown, gone)
                 ELSE w[k]]

\* a frame callback a torn-down scene had scheduled runs and schedules the next
orphanFrame(w, i) == [w EXCEPT !.tornDown[i].ran = @ \cup {"frame"}]

\* a window event reaches a listener of a torn-down scene
orphanEvent(w, i, type) == [w EXCEPT !.tornDown[i].ran = @ \cup {type}]

----------------------------------------------------------------------------
(* State *)

VARIABLES
    phase,                \* "new" before init() has run, then "ready"
    terrainGrid,          \* this.terrainGrid: the stored cells
    sceneTerrain,         \* the terrain meshes added to the scene
    clickableFlags,       \* this.clickableFlags
    grassTemplate,        \* this.grassGeometry and this.grassMaterial are set
    templatesBuilt,       \* how often createGrassInstances built them
    grassSkipped,         \* addGrassToTerrain calls that returned at the guard
    grassInstances,       \* this.grassInstances
    windTouched,          \* <<patch, instance>> written by the last animateGrass
    windPicks,            \* the patches the last animateGrass selected, in order
    river,                \* this.river
    riverbanks,           \* the bank meshes createRiverbankTerrain added
    waterFoam,            \* this.waterFoam's position array
    loadState,            \* the GLTF load of the flamingo
    flamingo,             \* this.flamingo
    flamingoMixer,        \* this.flamingoMixer is set
    timelines,            \* the gsap timelines created by animateFlamingoFlight
    generated,            \* explore point sets generated so far
    driver,               \* gen of the timeline that last moved the flamingo
    isFollowingFlamingo,  \* this.isFollowingFlamingo
    controlsEnabled,      \* this.controls.enabled
    camera,               \* this.camera: position and look-at point
    rafPending,           \* a requestAnimationFrame callback is scheduled
    listening,            \* the window listeners of init() are attached
    frameLog,             \* the stages the last animate() ran, in order
    rendered,             \* what the last render drew
    topicEvents,          \* topics handed to openTopicMarkdown, in order
    modals,               \* topic modals on the page
    mouse,                \* this.mouse: the last click, normalized
    errorLog,             \* the kinds of error reported to the console and debug log
    escaped,              \* an exception has left a callback of the scene uncaught
    shell,                \* Portfolio3D: its state and the scene its effect holds
    tornDown,             \* the scenes a cleanup has let go, with what they still run
    last,                 \* the handler that ran last, with its inputs
    frames, calls, clicks \* model clocks

vars == <<phase, terrainGrid, sceneTerrain, clickableFlags, grassTemplate,
          templatesBuilt, grassSkipped, grassInstances, windTouched, windPicks,
          river, riverbanks, waterFoam, loadState, flamingo, flamingoMixer, timelines, generated,
          driver, isFollowingFlamingo, controlsEnabled, camera, rafPending,
          listening, frameLog, rendered, topicEvents, modals, mouse, errorLog,
          escaped, shell, tornDown, last, frames, calls, clicks>>

\* everything of the scene but this.mouse
SceneButMouse ==
    <<phase, terrainGrid, sceneTerrain, clickableFlags, grassTemplate,
      templatesBuilt, grassSkipped, grassInstances, windTouched, windPicks,
      river, riverbanks, waterFoam, loadState, flamingo, flamingoMixer, timelines, generated,
      driver, isFollowingFlamingo, controlsEnabled, camera, rafPending,
      listening, frameLog, rendered, errorLog, escaped, shell, tornDown>>

\* the object's fields as one record, k the Math.random() stream position,
\* fault the place where the running handler meets an exception
World ==
    [phase |-> phase, terrainGrid |-> terrainGrid, sceneTerrain |-> sceneTerrain,
     clickableFlags |-> clickableFlags, grassTemplate |-> grassTemplate,
     templatesBuilt |-> templatesBuilt, grassSkipped |-> grassSkipped,
     grassInstances |-> grassInstances, windTouched |-> windTouched,
     windPicks |-> windPicks,
     river |-> river, riverbanks |-> riverbanks, waterFoam |-> waterFoam, loadState |-> loadState,
     flamingo |-> flamingo, flamingoMixer |-> flamingoMixer,
     timelines |-> timelines, generated |-> generated, driver |-> driver,
     isFollowingFlamingo |-> isFollowingFlamingo,
     controlsEnabled |-> controlsEnabled, camera |-> camera,
     rafPending |-> rafPending, listening |-> listening, frameLog |-> frameLog,
     rendered |-> rendered, topicEvents |-> topicEvents, modals |-> modals,
     mouse |-> mouse, errorLog |-> errorLog, escaped |-> escaped,
     shell |-> shell, tornDown |-> tornDown,
     k |-> 0, fault |-> "none", thrown |-> FALSE]

Store(w) ==
    /\ phase' = w.phase
    /\ terrainGrid' = w.terrainGrid
    /\ sceneTerrain' = w.sceneTerrain
    /\ clickableFlags' = w.clickableFlags
    /\ grassTemplate' = w.grassTemplate
    /\ templatesBuilt' = w.templatesBuilt
    /\ grassSkipped' = w.grassSkipped
    /\ grassInstances' = w.grassInstances
    /\ windTouched' = w.windTouched
    /\ windPicks' = w.windPicks
    /\ river' = w.river
    /\ riverbanks' = w.riverbanks
    /\ waterFoam' = w.waterFoam
    /\ loadState' = w.loadState
    /\ flamingo' = w.flamingo
    /\ flamingoMixer' = w.flamingoMixer
    /\ timelines' = w.timelines
    /\ generated' = w.generated
    /\ driver' = w.driver
    /\ isFollowingFlamingo' = w.isFollowingFlamingo
    /\ controlsEnabled' = w.controlsEnabled
    /\ camera' = w.camera
    /\ rafPending' = w.rafPending
    /\ listening' = w.listening
    /\ frameLog' = w.frameLog
    /\ rendered' = w.rendered
    /\ topicEvents' = w.topicEvents
    /\ modals' = w.modals
    /\ mouse' = w.mouse
    /\ errorLog' = w.errorLog
    /\ escaped' = w.escaped
    /\ shell' = w.shell
    /\ tornDown' = w.tornDown

\* the fields as the constructor leaves them before it calls init()
InitScene ==
    /\ phase = "new"
    /\ terrainGrid = <<>>
    /\ sceneTerrain = <<>>
    /\ clickableFlags = <<>>
    /\ grassTemplate = FALSE
    /\ templatesBuilt = 0
    /\ grassSkipped = 0
    /\ grassInstances = <<>>
    /\ windTouched = {}
    /\ windPicks = <<>>
    /\ river = Null
    /\ riverbanks = <<>>
    /\ waterFoam = Null
    /\ loadState = "none"
    /\ flamingo = Null
    /\ flamingoMixer = FALSE
    /\ timelines = <<>>
    /\ generated = 0
    /\ driver = 0
    /\ isFollowingFlamingo = FALSE
    /\ controlsEnabled = TRUE
    /\ camera = [position |-> Vec(0, 0, 0), lookAt |-> Vec(0, 0, -1000)]
    /\ rafPending = FALSE
    /\ listening = FALSE
    /\ frameLog = <<>>
    /\ rendered = Null
    /\ topicEvents = <<>>
    /\ modals = 0
    /\ mouse = [x |-> 0, y |-> 0]
    /\ errorLog = {}
    /\ escaped = FALSE
    /\ shell = FreshShell
    /\ tornDown = <<>>
    /\ frames = 0
    /\ calls = 0
    /\ clicks = 0

Init ==
    /\ InitScene
    /\ last = [op |-> "new"]

----------------------------------------------------------------------------
(* Actions: one per handler *)

\* elapsedTime values a frame reads from the clock, in milliseconds
Times == {0, 785}

\* coordinates createTerrainCell is called with after setup: two cells of the
\* generated grid and two cells just outside it
CallCoords ==
    {<<30, 0>>, <<0, 0>>,
     <<-(GridExtent + 1) * gridSize, 30>>, <<(GridExtent + 1) * gridSize, -20>>}

\* the hit lists of a pick ray: up to two distinct flags, nearest first
HitLists ==
    LET n == Min(Len(clickableFlags), MaxHitFlags)
    IN  {<<>>} \cup {<<i>> : i \in 1..n}
               \cup {h \in (1..n) \X (1..n) : h[1] # h[2]}

\* what a pick ray can pass through, nearest first: up to MaxRay objects,
\* each a registered flag (no flag twice) or an object that is not
\* registered (terrain, vegetation, water: "terrain" stands for all of them)
RayObjects ==
    {[kind |-> "flag", index |-> i] : i \in 1..Min(Len(clickableFlags), MaxHitFlags)}
        \cup {[kind |-> "terrain", index |-> 0]}

Rays ==
    {r \in UNION {[1..n -> RayObjects] : n \in 0..MaxRay} :
        \A a, b \in 1..Len(r) : (a # b /\ r[a].kind = "flag") => r[a] # r[b]}

\* the positions of a click, normalized device coordinates in thousandths
ClickPoints == {<<0, 0>>, <<500, -250>>}

\* new Scene3D(container): the constructor runs init()
Construct ==
    /\ phase = "new" /\ ~shell.mounted
    /\ \E tape \in Tapes :
          /\ Store(mountEffect(World, tape))
          /\ last' = [op |-> "init"]
    /\ UNCHANGED <<frames, calls, clicks>>

\* the places of init() where a setup step throws
SetupFaults == {"setupTerrain", "setupRiver", "setupFoam", "setupLoad", "setupGrass"}

\* new Scene3D(container) when a setup step of init() throws
ConstructFault ==
    /\ phase = "new" /\ ~shell.mounted
    /\ \E tape \in Tapes, fault \in SetupFaults :
          /\ Store(mountEffect([World EXCEPT !.fault = fault], tape))
          /\ last' = [op |-> "initFault", fault |-> fault]
    /\ UNCHANGED <<frames, calls, clicks>>

\* new Scene3D(container) when the browser gives no drawing context
ConstructNoContext ==
    /\ phase = "new" /\ ~shell.mounted
    /\ \E tape \in Tapes :
          /\ Store(mountEffect([World EXCEPT !.fault = "context"], tape))
          /\ last' = [op |-> "noContext"]
    /\ UNCHANGED <<frames, calls, clicks>>

\* the component unmounts: React runs the effect's cleanup
Unmount ==
    /\ shell.mounted /\ Len(tornDown) < MaxTeardowns
    /\ Store(cleanup(World))
    /\ last' = [op |-> "cleanup"]
    /\ UNCHANGED <<frames, calls, clicks>>

\* the browser runs the frame callback of a torn-down scene
OrphanFrame ==
    /\ \E i \in 1..Len(tornDown) :
          /\ tornDown[i].rafPending
          /\ Store(orphanFrame(World, i))
          /\ last' = [op |-> "orphanFrame", scene |-> i]
    /\ UNCHANGED <<frames, calls, clicks>>

\* a resize or click on the window reaches a listener of a torn-down scene
OrphanEvent ==
    /\ \E i \in 1..Len(tornDown), type \in {"resize", "click"} :
          /\ \E l \in tornDown[i].listeners : l.type = type
          /\ Store(orphanEvent(World, i, type))
          /\ last' = [op |-> "orphanEvent", scene |-> i, type |-> type]
    /\ UNCHANGED <<frames, calls, clicks>>

\* the requestAnimationFrame callback: animate()
Frame ==
    /\ phase = "ready" /\ rafPending /\ frames < MaxFrames
    /\ \E tape \in Tapes, time \in Times :
          /\ Store(animate([World EXCEPT !.rafPending = FALSE], time, tape))
          /\ last' = [op |-> "animate", time |-> time]
    /\ frames' = frames + 1
    /\ UNCHANGED <<calls, clicks>>

\* Math.random() streams of a frame whose wind step makes two selections of
\* 15 instances each: the first selection takes the first patch and walks
\* over its instances from the first on, the second takes the first patch
\* again (second = 0) or the last patch (second = 999) and walks on from the
\* third instance
SweepTape(second) ==
    [p \in 1..32 |-> IF p = 1 THEN 0
                     ELSE IF p = 17 THEN second
                     ELSE IF p < 17 THEN 59 * (p - 2)
                     ELSE 59 * (p - 16)]

SweepTapes == {SweepTape(0), SweepTape(999)}

\* the requestAnimationFrame callback in a frame whose wind step sweeps
FrameSweep ==
    /\ phase = "ready" /\ rafPending /\ frames < MaxFrames
    /\ \E tape \in SweepTapes, time \in Times \ {0} :
          /\ Store(animate([World EXCEPT !.rafPending = FALSE], time, tape))
          /\ last' = [op |-> "animate", time |-> time]
    /\ frames' = frames + 1
    /\ UNCHANGED <<calls, clicks>>

\* the places of a frame where an exception can arise: a stage of animate()
\* that runs without the actor, or the update of one grass instance
Faults == {"grass", "instance", "foam", "tint", "controls", "render"}

\* the elapsedTime of a frame after the first
LaterTimes == Times \ {0}

\* the requestAnimationFrame callback in a frame where something throws
FrameFault ==
    /\ phase = "ready" /\ rafPending /\ frames < MaxFrames
    /\ \E tape \in Tapes, time \in LaterTimes, fault \in Faults :
          /\ Store(animate([World EXCEPT !.rafPending = FALSE, !.fault = fault],
                            time, tape))
          /\ last' = [op |-> "animateFault", time |-> time, fault |-> fault]
    /\ frames' = frames + 1
    /\ UNCHANGED <<calls, clicks>>

\* createTerrainCell(gridX, gridZ) called on the constructed scene
CreateTerrainCell ==
    /\ phase = "ready" /\ calls < MaxCalls
    /\ \E c \in CallCoords, tape \in Tapes :
          /\ Store(createTerrainCell(World, c[1], c[2], tape, {}))
          /\ last' = [op |-> "createTerrainCell", gridX |-> c[1], gridZ |-> c[2],
                      existed |-> CellExists(terrainGrid, CellKey(c[1], c[2]))]
    /\ calls' = calls + 1
    /\ UNCHANGED <<frames, clicks>>

\* new Scene3D(container) when the second feature of every cell fails to build
ConstructFeatureFault ==
    /\ phase = "new" /\ ~shell.mounted
    /\ \E tape \in Tapes :
          /\ Store(mountEffect([World EXCEPT !.fault = "feature"], tape))
          /\ last' = [op |-> "initFeatureFault", tape |-> tape]
    /\ UNCHANGED <<frames, calls, clicks>>

\* createTerrainCell(gridX, gridZ) on the constructed scene when the second
\* feature of the cell fails to build
CreateTerrainCellFault ==
    /\ phase = "ready" /\ calls < MaxCalls
    /\ \E c \in CallCoords, tape \in Tapes :
          /\ Store(createTerrainCell([World EXCEPT !.fault = "feature"],
                                     c[1], c[2], tape, {1}))
          /\ last' = [op |-> "createTerrainCellFault", gridX |-> c[1],
                      gridZ |-> c[2], tape |-> tape,
                      existed |-> CellExists(terrainGrid, CellKey(c[1], c[2]))]
    /\ calls' = calls + 1
    /\ UNCHANGED <<frames, clicks>>

\* new Scene3D(container) on a page whose canvases give no 2d context: every
\* flag fails to build
ConstructFlagFault ==
    /\ phase = "new" /\ ~shell.mounted
    /\ \E tape \in Tapes :
          /\ Store(mountEffect([World EXCEPT !.fault = "flag"], tape))
          /\ last' = [op |-> "initFlagFault", tape |-> tape]
    /\ UNCHANGED <<frames, calls, clicks>>

\* a later createTerrainCell call whose flags fail to build
CreateTerrainCellFlagFault ==
    /\ phase = "ready" /\ calls < MaxCalls
    /\ \E c \in CallCoords, tape \in Tapes :
          /\ Store(createTerrainCell([World EXCEPT !.fault = "flag"],
                                     c[1], c[2], tape, {}))
          /\ last' = [op |-> "createTerrainCellFlagFault", gridX |-> c[1],
                      gridZ |-> c[2], tape |-> tape,
                      existed |-> CellExists(terrainGrid, CellKey(c[1], c[2]))]
    /\ calls' = calls + 1
    /\ UNCHANGED <<frames, clicks>>

\* the GLTF loader calls the success callback
LoadSuccess ==
    /\ loadState = "pending"
    /\ \E tape \in Tapes : Store(flamingoLoaded(World, tape))
    /\ last' = [op |-> "loaded"]
    /\ UNCHANGED <<frames, calls, clicks>>

\* the GLTF loader calls the error callback
LoadError ==
    /\ loadState = "pending"
    /\ Store(flamingoFailed(World))
    /\ last' = [op |-> "loadError"]
    /\ UNCHANGED <<frames, calls, clicks>>

\* gsap's ticker completes the current tween of one timeline; after the last
\* tween of the timeline its onRepeat callback runs
GsapTick ==
    /\ \E i \in 1..Len(timelines) :
          \/ /\ timelines[i].pos < Len(timelines[i].tweens)
             /\ Store(tweenComplete(World, i, NoTape))
             /\ last' = [op |-> "tween", timeline |-> i, repeated |-> FALSE]
          \/ /\ timelines[i].pos = Len(timelines[i].tweens)
             /\ Len(timelines) < MaxTimelines
             /\ \E tape \in Tapes :
                   /\ Store(tweenComplete(World, i, tape))
                   /\ last' = [op |-> "tween", timeline |-> i, repeated |-> TRUE]
    /\ UNCHANGED <<frames, calls, clicks>>

\* gsap's ticker completes one of the first tweens of the first timeline
GsapHop ==
    /\ Len(timelines) >= 1
    /\ timelines[1].pos <= MaxHops
    /\ timelines[1].pos < Len(timelines[1].tweens)
    /\ Store(tweenComplete(World, 1, NoTape))
    /\ last' = [op |-> "tween", timeline |-> 1, repeated |-> FALSE]
    /\ UNCHANGED <<frames, calls, clicks>>

\* a click on the page reaches the window listener
Click ==
    /\ listening /\ clicks < MaxClicks
    /\ \E pt \in ClickPoints, hits \in HitLists :
          /\ Store(onMouseClick(World, pt, hits))
          /\ last' = [op |-> "click", hits |-> hits]
    /\ clicks' = clicks + 1
    /\ UNCHANGED <<frames, calls>>

\* a click whose pick ray passes through flags and other objects of the scene
Pick ==
    /\ listening /\ clicks < MaxClicks
    /\ \E pt \in ClickPoints, ray \in Rays :
          LET hits == intersectObjects(ray, World.clickableFlags)
          IN  /\ Store(onMouseClick(World, pt, hits))
              /\ last' = [op |-> "click", hits |-> hits, ray |-> ray]
    /\ clicks' = clicks + 1
    /\ UNCHANGED <<frames, calls>>

\* a click on an open modal or on its close button
ModalClick ==
    /\ modals > 0 /\ clicks < MaxClicks
    /\ \E target \in {"modal", "close"}, pt \in ClickPoints, hits \in HitLists :
          /\ Store(pageClick(World, target, pt, hits))
          /\ last' = [op |-> "modalClick", target |-> target, hits |-> hits]
    /\ clicks' = clicks + 1
    /\ UNCHANGED <<frames, calls>>

\* a click on the follow button that also reaches the window listener
ButtonClick ==
    /\ phase = "ready" /\ listening /\ clicks < MaxClicks
    /\ \E pt \in ClickPoints, hits \in HitLists :
          /\ Store(onMouseClick(toggleFollow(World), pt, hits))
          /\ last' = [op |-> "buttonClick", hits |-> hits]
    /\ clicks' = clicks + 1
    /\ UNCHANGED <<frames, calls>>

\* a click on the follow button
ToggleFollow ==
    /\ phase = "ready"
    /\ Store(toggleFollow(World))
    /\ last' = [op |-> "toggle"]
    /\ UNCHANGED <<frames, calls, clicks>>

Next ==
    \/ Construct
    \/ Frame
    \/ CreateTerrainCell
    \/ LoadSuccess
    \/ LoadError
    \/ GsapTick
    \/ Click
    \/ ToggleFollow
    \/ FrameFault
    \/ Unmount
    \/ OrphanFrame
    \/ OrphanEvent
    \/ ConstructFault
    \/ ConstructNoContext
    \/ GsapHop
    \/ ConstructFeatureFault
    \/ CreateTerrainCellFault
    \/ FrameSweep
    \/ Pick
    \/ ConstructFlagFault
    \/ CreateTerrainCellFlagFault
    \/ ModalClick
    \/ ButtonClick

Spec == Init /\ [][Next]_vars

\* the terrain subsystem alone: construction and later createTerrainCell calls
NextTerrain ==
    \/ Construct
    \/ CreateTerrainCell

SpecTerrain == Init /\ [][NextTerrain]_vars

\* terrain generation in which single features fail to build
NextFeature ==
    \/ Construct
    \/ ConstructFeatureFault
    \/ CreateTerrainCell
    \/ CreateTerrainCellFault

SpecFeature == Init /\ [][NextFeature]_vars

\* the wind step on patches that later createTerrainCell calls add
NextWind ==
    \/ Construct
    \/ CreateTerrainCell
    \/ FrameSweep

SpecWind == Init /\ [][NextWind]_vars

\* the render loop on a scene that later createTerrainCell calls extend
NextFrame ==
    \/ Construct
    \/ CreateTerrainCell
    \/ Frame

SpecFrame == Init /\ [][NextFrame]_vars

\* the render loop with the actor loaded and the follow button in use
NextFollow ==
    \/ Construct
    \/ LoadSuccess
    \/ ToggleFollow
    \/ Frame

SpecFollow == Init /\ [][NextFollow]_vars

\* the follow camera behind an actor that flies: toggles and frames while
\* the gsap ticker moves and turns the actor
NextChase ==
    \/ Construct
    \/ LoadSuccess
    \/ GsapHop
    \/ ToggleFollow
    \/ Frame

SpecChase == Init /\ [][NextChase]_vars

\* the actor: the model load and the gsap ticker
NextFlight ==
    \/ Construct
    \/ LoadSuccess
    \/ LoadError
    \/ GsapTick

SpecFlight == Init /\ [][NextFlight]_vars

\* the picker: clicks on the constructed scene
NextClick ==
    \/ Construct
    \/ CreateTerrainCell
    \/ Click

SpecClick == Init /\ [][NextClick]_vars

\* the picker with rays that pass through flags and other objects
NextPick ==
    \/ Construct
    \/ CreateTerrainCell
    \/ Pick

SpecPick == Init /\ [][NextPick]_vars

\* the marker registry: construction with and without failing flags, then at
\* most one later cell whose flags fail, one frame and one click, in any order
RegistryCell == calls = 0 /\ CreateTerrainCellFlagFault

RegistryFrame == frames = 0 /\ Frame

RegistryClick == clicks = 0 /\ Click

NextRegistry ==
    \/ Construct
    \/ ConstructFlagFault
    \/ RegistryCell
    \/ RegistryFrame
    \/ RegistryClick

SpecRegistry == Init /\ [][NextRegistry]_vars

\* clicks on the scene, on an open modal and on the follow button
NextModal ==
    \/ Construct
    \/ Click
    \/ ModalClick
    \/ ButtonClick

SpecModal == Init /\ [][NextModal]_vars

\* the scene whose model load succeeds or fails, with frames and clicks
NextLoad ==
    \/ Construct
    \/ LoadSuccess
    \/ LoadError
    \/ Frame
    \/ Click

SpecLoad == Init /\ [][NextLoad]_vars

\* construction with and without failures, followed by failing load and frames
NextSetup ==
    \/ Construct
    \/ ConstructFault
    \/ ConstructNoContext
    \/ LoadError
    \/ FrameFault

SpecSetup == Init /\ [][NextSetup]_vars

\* the longitudinal positions the curve is evaluated at, in 0.001 units:
\* more than one full period (2*pi/0.01 = 628.3 units) around the origin
CurveInputs == {i * CurveStep : i \in -CurveSpan..CurveSpan}

\* a caller about to evaluate the curve at z
InitCurve ==
    /\ InitScene
    /\ \E z \in CurveInputs : last = [op |-> "z", z |-> z]

\* getRiverCurveOffset(z) is called, and called once more with the same z
CurveCall ==
    /\ last.op \in {"z", "getRiverCurveOffset"}
    /\ last.op = "getRiverCurveOffset" => ~last.again
    /\ last' = [op |-> "getRiverCurveOffset", z |-> last.z,
                value |-> getRiverCurveOffset(last.z),
                again |-> last.op = "getRiverCurveOffset"]
    /\ UNCHANGED <<SceneButMouse, topicEvents, modals, mouse, frames, calls, clicks>>

\* the curve function alone
NextCurve ==
    \/ CurveCall

SpecCurve == InitCurve /\ [][NextCurve]_vars

\* the hosting component: mounts, unmounts and clicks
NextShell ==
    \/ Construct
    \/ Unmount
    \/ Click
    \/ OrphanFrame
    \/ OrphanEvent

SpecShell == Init /\ [][NextShell]_vars

\* the render loop with failing frames on a scene extended by at most one
\* later createTerrainCell call; the browser runs a scheduled frame callback
\* eventually
NextLoop ==
    \/ Construct
    \/ (calls = 0 /\ CreateTerrainCell)
    \/ FrameFault

\* a step of the scheduled frame callback
FrameStep ==
    /\ phase = "ready" /\ rafPending /\ frames < MaxFrames
    /\ frames' = frames + 1

SpecLoop == Init /\ [][NextLoop]_vars /\ WF_frames(FrameStep)

----------------------------------------------------------------------------
(* Properties *)

\* the cells stored for the coordinates (x, z)
CellsAt(x, z) == {i \in 1..Len(terrainGrid) : terrainGrid[i].x = x /\ terrainGrid[i].z = z}

\* a step of the createTerrainCell handler called on the constructed scene
IsCellCall == calls' = calls + 1

\* a step of the requestAnimationFrame callback
IsFrame == frames' = frames + 1

\* a step of the click listener
IsClick == clicks' = clicks + 1

C1_OneCellPerKey ==
    \A i, j \in 1..Len(terrainGrid) :
        (terrainGrid[i].x = terrainGrid[j].x /\ terrainGrid[i].z = terrainGrid[j].z)
            => i = j

C1_SecondCallNoChange ==
    (IsCellCall /\ CellsAt(last'.gridX, last'.gridZ) # {})
        => /\ terrainGrid' = terrainGrid
           /\ sceneTerrain' = sceneTerrain
           /\ grassInstances' = grassInstances
           /\ clickableFlags' = clickableFlags

\* C1: createTerrainCell is idempotent.  In every reachable state the grid
\* holds at most one cell per coordinate pair, and a call for coordinates
\* that are already stored leaves the grid, the stored cells' feature lists
\* and the scene's terrain unchanged.
C1_CreateTerrainCellIdempotent ==
    []C1_OneCellPerKey /\ [][C1_SecondCallNoChange]_vars

\* C1 witness: a cell first created by a call after setup has been asked for
\* again, and is stored once.
C1_Witness ==
    /\ last.op = "createTerrainCell" /\ last.existed /\ calls = 2
    /\ Abs(last.gridX) > GridExtent * gridSize
    /\ Cardinality(CellsAt(last.gridX, last.gridZ)) = 1

\* the buffer a pass of the terrain generation keeps to the river centre
RiverBuffer(pass) == IF pass = "grid" THEN cellBuffer ELSE safeDistance

\* C2: every terrain feature the terrain generation placed (grid cells and
\* the expanded and riverbank pass) lies at least the configured river buffer
\* away from the river centre at its own z: |x - offset(z)| >= buffer.
C2_FeaturesOutsideBuffer ==
    \A i \in 1..Len(sceneTerrain) :
        Abs(sceneTerrain[i].x - getRiverCurveOffset(sceneTerrain[i].z))
            >= RiverBuffer(sceneTerrain[i].pass)

\* C3: at every world z the water mesh covers, the lateral centre of the mesh
\* in world space equals getRiverCurveOffset(z).
C3_WaterCentreOnCurve ==
    river # Null =>
        \A j \in DOMAIN river.rows :
            RiverWorldRows(river)[j].centre
                = getRiverCurveOffset(RiverWorldRows(river)[j].z)

C4_CountsFixed ==
    \A p \in 1..Len(grassInstances) :
        /\ p <= Len(grassInstances')
        /\ grassInstances'[p].count = grassInstances[p].count
        /\ Len(grassInstances'[p].tr) = grassInstances[p].count

C4_OnlyTouchedChange ==
    IsFrame =>
        /\ Len(grassInstances') = Len(grassInstances)
        /\ \A p \in 1..Len(grassInstances) :
              \A i \in 1..grassInstances[p].count :
                  <<p, i>> \notin windTouched'
                      => grassInstances'[p].tr[i] = grassInstances[p].tr[i]

\* C4: a grass patch keeps the instance count it was created with through
\* every step, and a frame changes no instance transform other than those
\* the wind step wrote in that frame.
C4_WindTouchesOnlyWritten == [][C4_CountsFixed /\ C4_OnlyTouchedChange]_vars

\* C4 witness: a frame's wind step has written some instances of a patch and
\* left others of the same patch alone.
C4_Witness ==
    /\ last.op = "animate"
    /\ \E t \in windTouched :
          \E i \in 1..grassInstances[t[1]].count : <<t[1], i>> \notin windTouched

\* C5: after every update no foam particle is below the lower bound, and a
\* particle at the upper bound, where recycling puts it, is laterally within
\* halfWidth of the curve at the upper bound.
C5_FoamRecycledInBand ==
    waterFoam # Null =>
        \A i \in DOMAIN waterFoam :
            /\ waterFoam[i].z >= foamLower
            /\ waterFoam[i].z <= foamUpper
            /\ waterFoam[i].z = foamUpper
                  => Abs(waterFoam[i].x - getRiverCurveOffset(foamUpper))
                         <= foamHalfWidth

\* C5 witness: an update has recycled a particle to the upper bound.
C5_Witness ==
    /\ waterFoam # Null
    /\ last.op \in {"init", "animate"}
    /\ \E i \in DOMAIN waterFoam : waterFoam[i].z = foamUpper

\* C6: terrain generation stores no cell, hence no feature, for the grid
\* coordinates (0,0), and for the grid coordinates (3,0) it stores one cell
\* with between 3 and 6 features, each at least the cell buffer away from
\* the river centre.
C6_CellScenario ==
    phase = "ready" =>
        /\ CellsAt(0, 0) = {}
        /\ Cardinality(CellsAt(3 * gridSize, 0)) = 1
        /\ \A c \in CellsAt(3 * gridSize, 0) :
              /\ Len(terrainGrid[c].features) \in 3..6
              /\ \A f \in 1..Len(terrainGrid[c].features) :
                    Abs(terrainGrid[c].features[f].x
                          - getRiverCurveOffset(terrainGrid[c].features[f].z))
                        >= cellBuffer

\* C6 witness: the grid is generated, createTerrainCell has been called for
\* (0,0), and the cell (3,0) holds features.
C6_Witness ==
    /\ phase = "ready"
    /\ last.op = "createTerrainCell" /\ last.gridX = 0 /\ last.gridZ = 0
    /\ \E c \in CellsAt(3 * gridSize, 0) : Len(terrainGrid[c].features) >= 3

\* C7: every transit of the actor belongs to a cycle over newly generated
\* waypoints: no timeline that has completed its cycle runs a transit
\* again over the waypoints of that cycle.
C7_CyclesUseFreshWaypoints ==
    (last.op = "tween" /\ ~last.repeated)
        => timelines[last.timeline].repeats = 0

\* C8: at most one flight timeline, with its waypoint set, is driving the
\* actor's position.
C8_OneDrivingTimeline == Len(timelines) <= 1

C9_NoHit ==
    (IsClick /\ Len(last'.hits) = 0)
        => /\ topicEvents' = topicEvents
           /\ modals' = modals
           /\ UNCHANGED SceneButMouse

C9_OneHit ==
    (IsClick /\ Len(last'.hits) = 1)
        => /\ topicEvents' = Append(topicEvents, clickableFlags[last'.hits[1]].topic)
           /\ modals' = modals + 1

frameOrder == <<"mixer", "camera", "grass", "foam", "tint", "render">>

StageRank(stage) == CHOOSE r \in 1..Len(frameOrder) : frameOrder[r] = stage

\* C10: the stages of a frame run in the order mixer tick, camera follow,
\* wind, foam, tint, render, the wind, foam and tint stages in every frame,
\* and what render draws are the camera, grass and foam values the frame
\* leaves behind.
C10_FrameStagesInOrder ==
    last.op \in {"init", "animate"} =>
        LET log == SelectSeq(frameLog, LAMBDA stage : stage # "controls")
        IN  /\ \A i, j \in 1..Len(log) :
                  i < j => StageRank(log[i]) < StageRank(log[j])
            /\ {"grass", "foam", "tint", "render"} \subseteq {log[i] : i \in 1..Len(log)}
            /\ rendered.camera = camera
            /\ rendered.grass = grassInstances
            /\ rendered.foam = waterFoam
            /\ rendered.hue = river.hue

\* C10 witness: a frame with the actor loaded and followed has run all the
\* stages, the camera has moved, and render drew the moved camera.
C10_Witness ==
    /\ last.op = "animate"
    /\ frameLog = <<"mixer", "camera", "grass", "foam", "tint", "controls", "render">>
    /\ camera.position # Vec(0, 6000, 15000)
    /\ rendered.camera = camera

\* the stages a frame's log holds
StagesRun == {frameLog[i] : i \in 1..Len(frameLog)}

C11_FrameSafe == IsFrame => (rafPending' /\ ~escaped')

C11_InstanceSkipped ==
    (IsFrame /\ last'.op = "animateFault" /\ last'.fault = "instance")
        => /\ {"grass", "foam", "tint", "controls", "render"}
                  \subseteq {frameLog'[i] : i \in 1..Len(frameLog')}
           /\ errorLog' = errorLog
           /\ rendered'.foam = waterFoam' /\ rendered'.grass = grassInstances'

ActiveLoops ==
    (IF rafPending THEN 1 ELSE 0)
        + Cardinality({i \in 1..Len(tornDown) : tornDown[i].rafPending})

\* C12: after teardown the scene schedules no further frames and its window
\* listeners are detached, so no frame callback and no resize or click
\* handler of a torn-down scene runs, and at most one scene's frame loop is
\* active.
C12_TeardownStopsScene ==
    /\ \A i \in 1..Len(tornDown) :
          /\ ~tornDown[i].rafPending
          /\ tornDown[i].listeners = {}
          /\ tornDown[i].ran = {}
    /\ ActiveLoops <= 1

C13_ToggleFlips ==
    (last'.op = "toggle" /\ phase = "ready")
        => /\ isFollowingFlamingo' = ~isFollowingFlamingo
           /\ controlsEnabled' = ~controlsEnabled

C13_OthersKeep ==
    (last'.op # "toggle" /\ phase = "ready")
        => /\ isFollowingFlamingo' = isFollowingFlamingo
           /\ controlsEnabled' = controlsEnabled

\* C13: in every reachable state the orbit controls are enabled exactly when
\* follow mode is off; a toggle flips both and nothing else changes them,
\* so an even number of toggles restores follow off with controls enabled.
C13_ControlsIffNotFollowing ==
    /\ [](controlsEnabled = ~isFollowingFlamingo)
    /\ [][C13_ToggleFlips /\ C13_OthersKeep]_vars

\* C13 witness: a toggle has brought follow mode back off, after a frame
\* that ran in follow mode.
C13_Witness ==
    /\ last.op = "toggle" /\ ~isFollowingFlamingo /\ controlsEnabled
    /\ "camera" \in StagesRun

C14_AbsentActorFrame ==
    (IsFrame /\ flamingo = Null)
        => /\ camera' = camera
           /\ "mixer" \notin {frameLog'[i] : i \in 1..Len(frameLog')}
           /\ "camera" \notin {frameLog'[i] : i \in 1..Len(frameLog')}
           /\ errorLog' = errorLog /\ ~escaped'

C14_ActorStagesNeedActor ==
    ("mixer" \in StagesRun \/ "camera" \in StagesRun)
        => (loadState = "loaded" /\ flamingo # Null)

\* C14: however frames, follow toggles and the completion of the model load
\* interleave, a frame that runs while the actor is absent ticks no mixer,
\* does not reposition the camera and reports no error, and a frame runs the
\* mixer or camera-follow stage only after the load callback attached the
\* actor.
C14_FramesTolerateAbsentActor ==
    /\ []C14_ActorStagesNeedActor
    /\ [][C14_AbsentActorFrame]_vars

\* C14 witness: a frame has run with follow mode on while the actor was
\* still absent.
C14_Witness ==
    /\ last.op = "animate" /\ isFollowingFlamingo /\ flamingo = Null
    /\ loadState = "pending" /\ frames > 0

C15_AbsentAfterFailure ==
    loadState = "failed"
        => /\ flamingo = Null /\ ~flamingoMixer
           /\ timelines = <<>> /\ generated = 0
           /\ "flamingo" \in errorLog
           /\ ~escaped /\ shell.error = Null

C15_FailureOnlyLogged ==
    (loadState = "pending" /\ loadState' = "failed")
        => /\ errorLog' = errorLog \cup {"flamingo"}
           /\ UNCHANGED <<terrainGrid, sceneTerrain, clickableFlags, grassInstances,
                          river, waterFoam, flamingo, flamingoMixer, timelines,
                          generated, camera, rafPending, listening, shell>>

C15_KeepsOperating ==
    /\ loadState = "failed" => loadState' = "failed"
    /\ (IsFrame /\ loadState = "failed")
          => /\ {"grass", "foam", "tint", "render"}
                    \subseteq {frameLog'[i] : i \in 1..Len(frameLog')}
             /\ rafPending' /\ rendered'.foam = waterFoam'
    /\ (IsClick /\ loadState = "failed" /\ Len(last'.hits) > 0)
          => topicEvents' = Append(topicEvents, clickableFlags[last'.hits[1]].topic)

\* C15: once the model load has failed the actor stays absent: no flight
\* timeline and no waypoint set ever exists, the failure is reported to the
\* log and changes nothing else, and frames (grass, foam, tint, render) and
\* click picking go on as before.
C15_LoadFailureIsBenign ==
    /\ []C15_AbsentAfterFailure
    /\ [][C15_FailureOnlyLogged /\ C15_KeepsOperating]_vars

\* C15 witness: after the failed load frames have run and a click has opened
\* a topic.
C15_Witness ==
    /\ loadState = "failed" /\ frames = MaxFrames
    /\ last.op = "click" /\ Len(last.hits) > 0 /\ topicEvents # <<>>

\* the grass patches registered for the terrain feature with this id
PatchesOf(id) == {p \in 1..Len(grassInstances) : grassInstances[p].terrain = id}

\* C16: the shared blade geometry and material are built exactly once, and
\* when setup finishes every terrain feature created during setup, each of
\* which requested grass, has exactly one patch in the grass registry.
C16_EveryFeatureHasGrass ==
    (phase = "ready" /\ last.op = "init")
        => /\ templatesBuilt = 1
           /\ \A i \in 1..Len(sceneTerrain) :
                 Cardinality(PatchesOf(sceneTerrain[i].id)) = 1

\* the steps in which something fails after the drawing context was obtained
LaterFailure == last'.op \in {"initFault", "loadError", "animateFault"}

\* the failures of setup and of the model load that are reported
ReportedFailure == last'.op \in {"initFault", "loadError"}

\* C17: the shell shows its error state exactly when construction failed to
\* obtain a drawing context; a failure of a later setup step, of the model
\* load or of a frame escapes nowhere, is reported to the debug log only and
\* leaves the shell not loading and without error
C17_ErrorStateIffNoContext ==
    [][/\ (shell'.error # Null) <=> (last'.op = "noContext")
       /\ LaterFailure => /\ shell'.error = Null
                          /\ ~shell'.isLoading
                          /\ ~escaped'
       /\ ReportedFailure => errorLog' # errorLog]_vars

C17_Witness ==
    /\ last.op = "animateFault"
    /\ {"river", "animation"} \subseteq errorLog
    /\ shell.error = Null /\ ~shell.isLoading

C17_WitnessNoContext ==
    /\ last.op = "noContext"
    /\ shell.error # Null /\ ~shell.isLoading /\ phase = "new"
\* the sum of the three sine amplitudes, 4.0 + 2.0 + 0.8
CurveEnvelope == 6800

IsCurveCall == last'.op = "getRiverCurveOffset"

\* C18: getRiverCurveOffset returns a value for every z, the value lies
\* within the amplitude envelope of 6.8 units, the call changes no state of
\* the scene, and a second call with the same z returns the same value
C18_CurveWithinEnvelope ==
    [][IsCurveCall =>
          /\ last'.value \in -CurveEnvelope..CurveEnvelope
          /\ UNCHANGED <<SceneButMouse, topicEvents, modals, mouse>>
          /\ (last.op = "getRiverCurveOffset" /\ last.z = last'.z)
                 => last'.value = last.value]_vars

C18_Witness ==
    /\ last.op = "getRiverCurveOffset"
    /\ last.again
    /\ last.value > 6000
\* the bank on the given side at the given longitudinal position
BankAt(side, zPos) ==
    CHOOSE i \in 1..Len(riverbanks) :
        riverbanks[i].side = side /\ riverbanks[i].zPos = zPos

BankPositions == {riverbanks[i].zPos : i \in 1..Len(riverbanks)}

\* C19: every bank segment's inner edge lies at offset(zPos) + side *
\* riverWidth / 2, so the two banks at one zPos are riverWidth apart and
\* centred on offset(zPos)
C19_BanksFollowCurve ==
    /\ \A i \in 1..Len(riverbanks) :
          riverbanks[i].innerEdgeX
             = getRiverCurveOffset(riverbanks[i].zPos)
                  + riverbanks[i].side * (riverWidth \div 2)
    /\ \A z \in BankPositions :
          /\ riverbanks[BankAt(1, z)].innerEdgeX
                 - riverbanks[BankAt(-1, z)].innerEdgeX = riverWidth
          /\ riverbanks[BankAt(1, z)].innerEdgeX
                 + riverbanks[BankAt(-1, z)].innerEdgeX
                 = 2 * getRiverCurveOffset(z)
\* the lateral distance of a particle from the curve at its own z
FoamDrift(p) == p.x - getRiverCurveOffset(p.z)

\* C20: at creation and after every frame the foam pool holds its fixed
\* number of particles, and every particle has the water-surface height as
\* y, z within [lower, upper] and a lateral distance from the curve at its z
\* of at most the foam half width
C20_FoamPoolInvariant ==
    waterFoam # Null =>
        /\ DOMAIN waterFoam = 1..FoamCount
        /\ \A i \in 1..FoamCount :
              /\ waterFoam[i].y = foamY
              /\ waterFoam[i].z \in foamLower..foamUpper
              /\ Abs(FoamDrift(waterFoam[i])) <= foamHalfWidth

\* C20 witness: a frame has pushed a particle back to the right edge of the
\* band (creation and recycling leave every particle left of that edge)
C20_Witness ==
    /\ waterFoam # Null
    /\ last.op = "animate"
    /\ \E i \in 1..FoamCount :
          /\ waterFoam[i].z < foamUpper
          /\ FoamDrift(waterFoam[i]) = foamHalfWidth
\* the transit tweens of a timeline that start at a waypoint of the cycle
HopTweens(tl) ==
    {t \in 1..Len(tl.tweens) :
        tl.tweens[t].kind = "transit" /\ tl.tweens[t].index >= 1}

\* the length of the hop a transit tween covers: from the waypoint before
\* its own to its own
HopLength(tl, t) ==
    Distance(tl.explorePoints[tl.tweens[t].index],
             tl.explorePoints[tl.tweens[t].index + 1])

\* C21: the duration of every transit is 2 + 0.3 * the distance between the
\* two waypoints it connects, so a shorter hop never takes longer than a
\* longer hop
C21_DurationFollowsHop ==
    \A i \in 1..Len(timelines) :
        LET tl == timelines[i]
        IN  /\ \A t \in HopTweens(tl) :
                  tl.tweens[t].duration = 2000 + 3 * HopLength(tl, t)
            /\ \A a, b \in HopTweens(tl) :
                  HopLength(tl, a) < HopLength(tl, b)
                     => tl.tweens[a].duration <= tl.tweens[b].duration
\* the last frame ran the follow block
FollowedThisFrame ==
    /\ last.op = "animate"
    /\ \E n \in 1..Len(frameLog) : frameLog[n] = "camera"

\* the horizontal displacement from the actor to a point
Horizontal(p) == [x |-> p.x - flamingo.position.x, z |-> p.z - flamingo.position.z]

\* two horizontal vectors point in opposite directions
Opposite(a, b) == a.x * b.x + a.z * b.z < 0

\* C22: in a follow-mode frame the camera's position target lies behind and
\* above the actor and the look target ahead of it: their horizontal
\* displacements from the actor point in opposite directions
C22_CameraBehindLookAhead ==
    FollowedThisFrame =>
        /\ FollowTargetPos(flamingo).y > flamingo.position.y
        /\ Opposite(Horizontal(FollowTargetPos(flamingo)),
                    Horizontal(FollowTargetLook(flamingo)))
\* a frame that runs the follow block
FollowFrame ==
    /\ last'.op = "animate"
    /\ \E n \in 1..Len(frameLog') : frameLog'[n] = "camera"

\* currentLookTarget of the follow block: the camera's position after the
\* step plus 10 units along the direction the camera looked in before it
CurrentLookTarget ==
    LET d == [x |-> camera.lookAt.x - camera.position.x,
              y |-> camera.lookAt.y - camera.position.y,
              z |-> camera.lookAt.z - camera.position.z]
        len == 10 * Distance(camera.position, camera.lookAt)
    IN  IF len = 0 THEN camera'.position
        ELSE Vec(camera'.position.x + (d.x * 10000) \div len,
                 camera'.position.y + (d.y * 10000) \div len,
                 camera'.position.z + (d.z * 10000) \div len)

\* C23: in a follow frame the camera position moves 5% of the way from its
\* previous value to the position target, and the look-at point applied lies
\* 10% of the way from the camera's current look target to the look-ahead
\* target
C23_FollowIsSmoothed ==
    [][FollowFrame =>
          /\ camera'.position = Lerp(camera.position, FollowTargetPos(flamingo), 5)
          /\ camera'.lookAt = Lerp(CurrentLookTarget, FollowTargetLook(flamingo), 10)]_vars
\* the longitudinal positions of a cell's features, which come from the
\* cell's seeded generator alone
FeatureZs(cell) == {cell.features[i].z : i \in 1..Len(cell.features)}

\* a grid whose cells are those of the grid `clean`, each with the features
\* of the clean cell but at most one
SkipsOneFeaturePerCell(grid, clean) ==
    /\ Len(grid) = Len(clean)
    /\ \A c \in 1..Len(clean) :
          /\ grid[c].key = clean[c].key
          /\ FeatureZs(grid[c]) \subseteq FeatureZs(clean[c])
          /\ Len(grid[c].features) >= Len(clean[c].features) - 1

\* C24 at construction: the grid holds the same cells as without the
\* failure, every cell with its other features, the failure is logged and
\* setup goes on
C24_AtSetup ==
    last'.op = "initFeatureFault" =>
        /\ SkipsOneFeaturePerCell(terrainGrid',
                                  constructor(World, last'.tape).terrainGrid)
        /\ \E c \in 1..Len(terrainGrid') :
              Len(terrainGrid'[c].features)
                 < Len(constructor(World, last'.tape).terrainGrid[c].features)
        /\ "terrain" \in errorLog'
        /\ phase' = "ready" /\ rafPending' /\ ~escaped'

\* C24 in a later call: the new cell is stored with its other features, the
\* failed feature is in no list and has no grass
C24_LaterCall ==
    (last'.op = "createTerrainCellFault" /\ Len(terrainGrid') > Len(terrainGrid)) =>
        LET clean == createTerrainCell(World, last'.gridX, last'.gridZ,
                                       last'.tape, {})
            cell == terrainGrid'[Len(terrainGrid')]
            cleanCell == clean.terrainGrid[Len(clean.terrainGrid)]
        IN  /\ cell.key = cleanCell.key
            /\ FeatureZs(cell) \subseteq FeatureZs(cleanCell)
            /\ Len(cell.features) >= Len(cleanCell.features) - 1
            /\ Len(cell.features) < Len(cleanCell.features)
                   => "terrain" \in errorLog'
            /\ Len(grassInstances') - Len(grassInstances) = Len(cell.features)
            /\ Len(sceneTerrain') - Len(sceneTerrain) = Len(cell.features)

\* C24: a feature whose construction fails is logged and skipped: its cell
\* is stored with the other features, the failed feature is in no feature
\* list and has no grass, and the remaining cells are generated
C24_FailedFeatureSkipped ==
    [][C24_AtSetup /\ C24_LaterCall]_vars

C24_Witness ==
    /\ last.op = "createTerrainCellFault"
    /\ ~last.existed
    /\ "terrain" \in errorLog
    /\ Len(terrainGrid[Len(terrainGrid)].features) >= 2
    /\ Len(grassInstances) >= 2
\* the instances of patch p the last wind step wrote
TouchedOf(p) == {t \in windTouched : t[1] = p}

\* how often the last wind step selected patch p
PickCount(p) == Cardinality({j \in 1..Len(windPicks) : windPicks[j] = p})

\* C25 as stated: a frame's wind step modifies instances of at most 5
\* patches and touches at most 15 instances of each patch
C25_WindCapsAsStated ==
    /\ Cardinality({t[1] : t \in windTouched}) <= windPatchCap
    /\ \A p \in 1..Len(grassInstances) :
          Cardinality(TouchedOf(p)) <= windInstanceCap

\* C25: a frame's wind step makes at most 5 selections of a patch, with
\* repetition, and writes at most 15 instances per selection: a patch
\* selected n times has at most 15 n instances touched, and the frame touches
\* at most 5 * 15 instances
C25_WindWithinCaps ==
    /\ Len(windPicks) <= windPatchCap
    /\ \A t \in windTouched : PickCount(t[1]) >= 1
    /\ \A p \in 1..Len(grassInstances) :
          Cardinality(TouchedOf(p)) <= windInstanceCap * PickCount(p)
    /\ Cardinality(windTouched) <= windPatchCap * windInstanceCap

\* C25 witness: a frame selected one patch more than once and wrote more
\* than 15 of its instances
C25_Witness ==
    /\ last.op = "animate"
    /\ \E p \in 1..Len(grassInstances) :
          /\ PickCount(p) >= 2
          /\ Cardinality(TouchedOf(p)) > windInstanceCap

\* the flags on a ray, nearest first
FlagsAlong(ray) == SelectSeq(ray, LAMBDA o : o.kind = "flag")

IsPick == IsClick /\ "ray" \in DOMAIN last'

\* C26: a click opens exactly one topic, the one of the registered marker
\* nearest to the camera on the pick ray, however many markers the ray meets
\* and whatever terrain, vegetation or water lies on the ray before or
\* between them; a ray that meets no registered marker opens nothing.
C26_NearestMarkerPicked ==
    [][IsPick =>
         LET flags == FlagsAlong(last'.ray)
         IN  IF Len(flags) = 0
             THEN topicEvents' = topicEvents /\ modals' = modals
             ELSE /\ topicEvents' = Append(topicEvents, clickableFlags[flags[1].index].topic)
                  /\ modals' = modals + 1]_vars

\* C26 witness: a ray went through terrain, then through two markers of
\* different topics, and the click opened the topic of the nearer marker only.
C26_Witness ==
    /\ last.op = "click" /\ "ray" \in DOMAIN last
    /\ Len(last.ray) = 3 /\ last.ray[1].kind = "terrain"
    /\ last.ray[2].kind = "flag" /\ last.ray[3].kind = "flag"
    /\ clickableFlags[last.ray[2].index].topic # clickableFlags[last.ray[3].index].topic
    /\ topicEvents = <<clickableFlags[last.ray[2].index].topic>>

\* the configured topics
TopicSet == {topics[i] : i \in 1..Len(topics)}

\* the registry after a step holds the registry before it as a prefix
RegistryKept ==
    /\ Len(clickableFlags') >= Len(clickableFlags)
    /\ SubSeq(clickableFlags', 1, Len(clickableFlags)) = clickableFlags

\* C27: every registered marker carries a configured topic; a handler whose
\* flags fail to build registers none, while its terrain features are still
\* built; a registered marker is never removed and keeps its topic; frames
\* and clicks leave the registry unchanged.
C27_RegistryInvariant ==
    [][/\ \A i \in 1..Len(clickableFlags') : clickableFlags'[i].topic \in TopicSet
       /\ RegistryKept
       /\ last'.op \in {"initFlagFault", "createTerrainCellFlagFault"}
             => clickableFlags' = clickableFlags
       /\ last'.op \in {"animate", "click"} => clickableFlags' = clickableFlags]_vars

\* C27 witness: markers were registered at construction, a later cell whose
\* flags failed was generated, and a click went through a registered marker.
C27_Witness ==
    /\ last.op = "click" /\ Len(last.hits) > 0
    /\ Len(clickableFlags) >= 2
    /\ "flag" \in errorLog
    /\ calls > 0 /\ frames > 0

\* C28: at most one topic modal is open at any time, and while a modal is
\* open no click (on the scene, the modal, its close button or the follow
\* button) dispatches another topic-open event.
C28_OneModalAtATime ==
    [][/\ modals' <= 1
       /\ (modals > 0 /\ clicks' = clicks + 1) => topicEvents' = topicEvents]_vars

\* C29: whenever the orbit controls are disabled the actor is present, so
\* that the frames' follow logic positions the camera; the user is never
\* left with neither manual control nor a following camera.
C29_ControlNeverLost == ~controlsEnabled => flamingo # Null

\* the cells of terrainGrid that generateTerrainGrid asks for: grid
\* coordinates within the extent that its loops do not skip
GridGenerated ==
    {i \in 1..Len(terrainGrid) :
        LET c == terrainGrid[i]
        IN  /\ c.x % gridSize = 0 /\ c.z % gridSize = 0
            /\ Abs(c.x) <= GridExtent * gridSize /\ Abs(c.z) <= GridExtent * gridSize
            /\ ~GridSkips(c.x \div gridSize, c.z \div gridSize)}

\* C30: any two distinct cells generated by generateTerrainGrid have
\* different seeds.
C30_SeedInjective ==
    \A i, j \in GridGenerated :
        i # j => cellSeed(terrainGrid[i].x, terrainGrid[i].z)
                    # cellSeed(terrainGrid[j].x, terrainGrid[j].z)
====
